---- MODULE Spec2Model ----
(***************************************************************************)
(* Model of the VPC provisioning API (lrdplopes/allianz-challenge-sce):    *)
(* the VPCManager orchestration (create with rollback, delete), the        *)
(* request validators, the metadata store and the Lambda handlers.         *)
(*                                                                         *)
(* Strings that the code parses are modelled by what str.split gives:      *)
(* a CIDR text is the sequence of its '/'-separated parts, each part the   *)
(* sequence of its '.'-separated fields, each field a text without '/'     *)
(* and '.'.  "10.0.0.0/16" is << <<"10","0","0","0">>, <<"16">> >>, the    *)
(* empty text is << <<"">> >>.  int() and str() are tables on fields.      *)
(***************************************************************************)
EXTENDS Integers, Sequences, FiniteSets, TLC

VARIABLES
    vpcs,       \* provider: the network containers, [id, cidr, dns_hostnames, dns_support]
    subnets,    \* provider: the subnetworks, [id, vpc, cidr, az, map_public]
    igws,       \* provider: the gateways, [id, vpc]; vpc = None when detached
    rtbs,       \* provider: the route tables, [id, vpc, main, routes, associations]
    zones,      \* provider: the zones of the region, in the order it reports them
    next_id,    \* provider: the next identifier it issues
    table,      \* metadata store: the DynamoDB items, one per vpc_id
    clock,      \* the UTC clock read by datetime.utcnow()
    fr,         \* one frame per request process: its locals and its position
    started,    \* the number of requests started so far
    hist,       \* history: the identifiers create_vpc returned (created), those the
                \* create handler answered 201 for (saved), those a delete request
                \* was started for (deleting)
    fn_in,      \* pure-function harness: the CIDR text given to the function
    fn_op,      \* pure-function harness: which function was applied
    fn_out      \* pure-function harness: what it returned or raised

ec2vars == <<vpcs, subnets, igws, rtbs, zones, next_id>>
fnvars == <<fn_in, fn_op, fn_out>>
vars == <<vpcs, subnets, igws, rtbs, zones, next_id, table, clock, fr, started, hist,
          fn_in, fn_op, fn_out>>

MaxRequests == 2    \* requests started in one behaviour

(***************************************************************************)
(* Python text primitives                                                  *)
(***************************************************************************)

\* int(field): the fields int() accepts and their values; any other field
\* raises ValueError.  "16 " carries trailing white space, which int() skips.
IntVal ==
    ("0" :> 0) @@ ("1" :> 1) @@ ("2" :> 2) @@ ("10" :> 10) @@ ("15" :> 15) @@
    ("16" :> 16) @@ ("20" :> 20) @@ ("24" :> 24) @@ ("28" :> 28) @@
    ("29" :> 29) @@ ("255" :> 255) @@ ("256" :> 256) @@ ("-1" :> -1) @@
    ("16 " :> 16)

IsInt(field) == field \in DOMAIN IntVal

\* str(n) for the integers the code formats
Str(n) == CASE n = 1 -> "1" [] n = 2 -> "2" [] n = 24 -> "24"

\* text.strip() on one field: removes leading and trailing white space
StripField(field) == IF field = "16 " THEN "16" ELSE field

\* cidr.strip(): white space can only sit at the two ends of the text
StripCidr(cidr) ==
    LET n == Len(cidr)
        a == [cidr EXCEPT ![1] = [@ EXCEPT ![1] = StripField(@)]]
    IN  [a EXCEPT ![n] = [@ EXCEPT ![Len(@)] = StripField(@)]]

\* the one-field part, or a text int() rejects when the part holds a '.'
PartIsInt(part) == Len(part) = 1 /\ IsInt(part[1])
PartInt(part) == IntVal[part[1]]

EmptyText == << <<"">> >>
NoneMsg == "None"

(***************************************************************************)
(* common/validation.py                                                    *)
(***************************************************************************)

\* index of the first octet that makes the loop of validate_cidr_block leave,
\* 0 when every octet is an integer in 0..255
RECURSIVE FirstBadOctet(_, _)
FirstBadOctet(octets, i) ==
    IF i > Len(octets) THEN 0
    ELSE IF ~IsInt(octets[i]) THEN i
    ELSE IF IntVal[octets[i]] < 0 \/ IntVal[octets[i]] > 255 THEN i
    ELSE FirstBadOctet(octets, i + 1)

\* the range test with the upper limit off by one
validate_cidr_block_range_upto29(prefix) == prefix < 16 \/ prefix > 29

validate_cidr_block_range(prefix) == prefix < 16 \/ prefix > 28

Returned(ok, error) == [ok |-> ok, error |-> error, raised |-> "None"]
Raised(type) == [ok |-> FALSE, error |-> NoneMsg, raised |-> type]

\* lines 32-47, the body of the try: what it returns or raises
validate_cidr_block_try(cidr) ==
    IF Len(cidr) # 2            \* ip_part, prefix_part = cidr.split('/')
    THEN Raised("ValueError")
    ELSE LET octets == cidr[1]
             bad == FirstBadOctet(octets, 1)
         IN  IF Len(octets) # 4
             THEN Returned(FALSE, "CIDR block must have valid IPv4 address format")
             ELSE IF bad # 0 /\ ~IsInt(octets[bad])
             THEN Raised("ValueError")
             ELSE IF bad # 0
             THEN Returned(FALSE, "Invalid IP octet")
             ELSE IF ~PartIsInt(cidr[2])
             THEN Raised("ValueError")
             ELSE IF validate_cidr_block_range(PartInt(cidr[2]))
             THEN Returned(FALSE, "VPC CIDR prefix must be between /16 and /28")
             ELSE Returned(TRUE, NoneMsg)

\* lines 49-50: except ValueError
validate_cidr_block_except(r) ==
    IF r.raised = "ValueError" THEN Returned(FALSE, "Invalid CIDR block format") ELSE r

\* lines 24-50
validate_cidr_block(cidr) ==
    IF cidr = EmptyText
    THEN Returned(FALSE, "CIDR block is required")
    ELSE IF Len(cidr) = 1
    THEN Returned(FALSE, "CIDR block must include a prefix")
    ELSE validate_cidr_block_except(validate_cidr_block_try(cidr))

\* a name is the sequence of its characters
Alnum == {"d", "1"}
WhiteSpace == {" ", "\n"}

RECURSIVE LStrip(_)
LStrip(text) == IF text # <<>> /\ Head(text) \in WhiteSpace THEN LStrip(Tail(text)) ELSE text

RECURSIVE RStrip(_)
RStrip(text) ==
    IF text # <<>> /\ text[Len(text)] \in WhiteSpace
    THEN RStrip(SubSeq(text, 1, Len(text) - 1)) ELSE text

\* text.strip()
Strip(text) == RStrip(LStrip(text))

\* re.match(r'^[a-zA-Z0-9][a-zA-Z0-9_-]*$', name): '$' also matches just
\* before a newline that ends the text
NameRegexMatches(name) ==
    LET body == IF name # <<>> /\ name[Len(name)] = "\n"
                THEN SubSeq(name, 1, Len(name) - 1) ELSE name
    IN  /\ body # <<>>
        /\ body[1] \in Alnum
        /\ \A i \in 1..Len(body) : body[i] \in Alnum \cup {"_", "-"}

MaxNameLen == 255

\* lines 5-21; a missing name is None, which fails the first test like ''
validate_vpc_name(name) ==
    IF name = <<>> THEN [ok |-> FALSE, error |-> "VPC name is required"]
    ELSE IF Len(name) > MaxNameLen
    THEN [ok |-> FALSE, error |-> "VPC name must be 255 characters or less"]
    ELSE IF name[1] \notin Alnum
    THEN [ok |-> FALSE, error |-> "VPC name must start with an alphanumeric character"]
    ELSE IF ~NameRegexMatches(name)
    THEN [ok |-> FALSE, error |-> "VPC name can only contain alphanumeric characters, hyphens, and underscores"]
    ELSE [ok |-> TRUE, error |-> NoneMsg]

\* a request body is a dict, a function on the keys it holds; None is NoneBody
NoneBody == [none |-> TRUE]
Get(body, key, default) == IF key \in DOMAIN body THEN body[key] ELSE default
NoData == [name |-> <<>>, cidr_block |-> <<>>]

\* validate_create_vpc_request checking the range before the name
validate_create_vpc_request_range_first(body) ==
    IF body = NoneBody
    THEN [ok |-> FALSE, error |-> "Request body is required", data |-> NoData]
    ELSE LET name == Get(body, "name", <<>>)
             cidr_block == Get(body, "cidr_block", << <<"10", "0", "0", "0">>, <<"16">> >>)
         IN  IF ~validate_cidr_block(cidr_block).ok
             THEN [ok |-> FALSE, error |-> validate_cidr_block(cidr_block).error,
                   data |-> NoData]
             ELSE IF ~validate_vpc_name(name).ok
             THEN [ok |-> FALSE, error |-> validate_vpc_name(name).error, data |-> NoData]
             ELSE [ok |-> TRUE, error |-> NoneMsg,
                   data |-> [name |-> Strip(name), cidr_block |-> StripCidr(cidr_block)]]

\* lines 63-82
validate_create_vpc_request(body) ==
    IF body = NoneBody
    THEN [ok |-> FALSE, error |-> "Request body is required", data |-> NoData]
    ELSE LET name == Get(body, "name", <<>>)
             cidr_block == Get(body, "cidr_block", << <<"10", "0", "0", "0">>, <<"16">> >>)
         IN  IF ~validate_vpc_name(name).ok
             THEN [ok |-> FALSE, error |-> validate_vpc_name(name).error, data |-> NoData]
             ELSE IF ~validate_cidr_block(cidr_block).ok
             THEN [ok |-> FALSE, error |-> validate_cidr_block(cidr_block).error,
                   data |-> NoData]
             ELSE [ok |-> TRUE, error |-> NoneMsg,
                   data |-> [name |-> Strip(name), cidr_block |-> StripCidr(cidr_block)]]

(***************************************************************************)
(* common/vpc_manager.py: the address helpers                              *)
(***************************************************************************)

\* _validate_cidr: TRUE when it returns, FALSE when it raises ValueError
\* (also the ValueError of unpacking a split('/') of more than two parts)
_validate_cidr(cidr_block) ==
    /\ Len(cidr_block) = 2
    /\ Len(cidr_block[1]) = 4
    /\ PartIsInt(cidr_block[2])
    /\ ~(PartInt(cidr_block[2]) < 16 \/ PartInt(cidr_block[2]) > 28)

\* _calculate_subnet_cidr with the wrong octet replaced
_calculate_subnet_cidr_second(vpc_cidr, subnet_index) ==
    << [vpc_cidr[1] EXCEPT ![2] = Str(subnet_index)], <<Str(24)>> >>

\* _calculate_subnet_cidr: octets[2] = str(index), prefix "24"; the other
\* octets are kept as written.  Only called on texts with at least 3 octets.
_calculate_subnet_cidr(vpc_cidr, subnet_index) ==
    << [vpc_cidr[1] EXCEPT ![3] = Str(subnet_index)], <<Str(24)>> >>

(***************************************************************************)
(* Values                                                                  *)
(***************************************************************************)

None == 0                       \* Python None where an identifier is expected
NoneAz == "None"                \* Python None where a zone name is expected

NoExc == [type |-> "None", code |-> "", op |-> ""]
ClientError(code, op) == [type |-> "ClientError", code |-> code, op |-> op]
ValueError(op) == [type |-> "ValueError", code |-> "", op |-> op]
\* botocore checks the parameters before it sends a request: a None where
\* a string is required raises ParamValidationError, which is no ClientError
ParamValidationError(op) == [type |-> "ParamValidationError", code |-> "", op |-> op]

NoSubnet == [subnet_id |-> None, cidr_block |-> <<>>, availability_zone |-> NoneAz,
             type |-> "None"]
NoDetails == [vpc_id |-> None, name |-> <<>>, cidr_block |-> <<>>, region |-> "",
              subnets |-> <<>>, internet_gateway_id |-> None, route_tables |-> <<>>,
              status |-> "", created_at |-> 0, created_by |-> "", has_details |-> FALSE]
NoDeletion == [vpc_id |-> None, status |-> "", note |-> FALSE]
NoOut == [kind |-> "none", status |-> 0, exc |-> NoExc, data |-> NoDetails,
          deletion |-> NoDeletion]

Cidr16 == << <<"10", "0", "0", "0">>, <<"16">> >>      \* "10.0.0.0/16"
DefaultRoute == << <<"0", "0", "0", "0">>, <<"0">> >>  \* "0.0.0.0/0"
Region == "us-east-2"

IdleFrame ==
    [kind |-> "none", pc |-> "idle", entry |-> "", body |-> <<>>, name |-> <<>>,
     cidr_block |-> <<>>, vpc_id |-> None, primary_az |-> NoneAz,
     public_subnet |-> NoSubnet, private_subnet |-> NoSubnet, igw_id |-> None,
     rtb_id |-> None, subnet_id |-> None, exc |-> NoExc, rb_exc |-> NoExc, rb_done |-> FALSE,
     todo |-> <<>>, calls |-> <<>>, details |-> NoDetails, deletion |-> NoDeletion,
     answer |-> "", out |-> NoOut]

\* the request slots: each runs one request at a time
Procs == {"r1"}

\* the frame of p after one more provider call is logged
Logged(f, op, id, cidr) ==
    [f EXCEPT !.calls = Append(@, [op |-> op, id |-> id, cidr |-> cidr])]

\* the error codes the provider may answer a call with, whatever the state
InjectedCodes(op) ==
    CASE op = "create_vpc" -> {"VpcLimitExceeded", "InternalError"}
      [] op \in {"delete_subnet", "delete_vpc"} -> {"DependencyViolation"}
      [] OTHER -> {"InternalError"}

\* a set of identifiers as the list the provider returns, in ascending order
RECURSIVE SortedSeq(_)
SortedSeq(S) ==
    IF S = {} THEN <<>>
    ELSE LET m == CHOOSE x \in S : \A y \in S : x <= y
         IN  <<m>> \o SortedSeq(S \ {m})

(***************************************************************************)
(* Address ranges as the provider reads them                               *)
(***************************************************************************)

\* a text of four integer octets in 0..255 and an integer prefix in 0..32
WellFormed(cidr) ==
    /\ Len(cidr) = 2
    /\ Len(cidr[1]) = 4
    /\ \A i \in 1..4 : IsInt(cidr[1][i]) /\ IntVal[cidr[1][i]] \in 0..255
    /\ PartIsInt(cidr[2])
    /\ PartInt(cidr[2]) \in 0..32

Pow2(n) == CASE n = 0 -> 1 [] n = 1 -> 2 [] n = 2 -> 4 [] n = 3 -> 8 [] n = 4 -> 16
             [] n = 5 -> 32 [] n = 6 -> 64 [] n = 7 -> 128

\* bit i (0 the most significant of 32) of the address of a well-formed text
Bit(cidr, i) == (IntVal[cidr[1][(i \div 8) + 1]] \div Pow2(7 - (i % 8))) % 2

\* the addresses of sub all belong to parent: sub is at least as long a prefix
\* and agrees with parent on every bit of parent's prefix
SubRange(sub, parent) ==
    /\ PartInt(sub[2]) >= PartInt(parent[2])
    /\ \A i \in 0..(PartInt(parent[2]) - 1) : Bit(sub, i) = Bit(parent, i)

\* two ranges share an address exactly when one holds the other
Overlap(a, b) == SubRange(a, b) \/ SubRange(b, a)

(***************************************************************************)
(* common/vpc_manager.py: VPCManager.create_vpc                            *)
(***************************************************************************)

\* the except clause without its cleanup
create_vpc_except_never(f) == "create_raise"

\* except ClientError (lines 87-91): with vpc_id among the locals the
\* rollback runs delete_vpc(vpc_id) before the raise
create_vpc_except(f) ==
    IF f.vpc_id # None THEN "del_describe_subnets" ELSE "create_raise"

\* a failed provider call of create_vpc issued again
CreateCallFails_retrying(p, op, id, cidr) ==
    fr' = [fr EXCEPT ![p] = Logged(fr[p], op, id, cidr)]

\* a provider call of create_vpc answered with an error
CreateCallFails(p, op, id, cidr) ==
    \E code \in InjectedCodes(op) :
        LET f == Logged(fr[p], op, id, cidr)
        IN  fr' = [fr EXCEPT ![p] =
                      [f EXCEPT !.exc = ClientError(code, op),
                                !.pc = create_vpc_except(f)]]

\* line 25: _validate_cidr raises ValueError, caught at line 92 and raised
CreateValidate(p) ==
    /\ fr[p].pc = "validate"
    /\ fr' = [fr EXCEPT ![p] =
                 IF _validate_cidr(@.cidr_block)
                 THEN [@ EXCEPT !.pc = "create_vpc"]
                 ELSE [@ EXCEPT !.exc = ValueError("_validate_cidr"),
                                !.pc = "create_raise"]]
    /\ UNCHANGED <<ec2vars, table, clock, started, hist, fnvars>>

\* the provider refuses a network whose range it cannot read
VpcAccepted(cidr) == WellFormed(cidr) /\ PartInt(cidr[2]) \in 16..28

\* lines 27-34: the provider creates the network and its main route table
CreateVpc(p) ==
    /\ fr[p].pc = "create_vpc"
    /\ \/ /\ VpcAccepted(fr[p].cidr_block)
          /\ vpcs' = vpcs \cup {[id |-> next_id, cidr |-> fr[p].cidr_block,
                                 dns_hostnames |-> FALSE, dns_support |-> FALSE]}
          /\ rtbs' = rtbs \cup {[id |-> next_id + 1, vpc |-> next_id, main |-> TRUE,
                                 routes |-> {},
                                 associations |-> {[main |-> TRUE, subnet |-> None]}]}
          /\ next_id' = next_id + 2
          /\ fr' = [fr EXCEPT ![p] =
                       [Logged(@, "create_vpc", None, @.cidr_block)
                           EXCEPT !.vpc_id = next_id,
                                  !.pc = "modify_dns_hostnames"]]
          /\ UNCHANGED <<subnets, igws, zones>>
       \/ /\ ~VpcAccepted(fr[p].cidr_block)
          /\ fr' = [fr EXCEPT ![p] =
                       [Logged(@, "create_vpc", None, @.cidr_block)
                           EXCEPT !.exc = ClientError("InvalidParameterValue", "create_vpc"),
                                  !.pc = create_vpc_except(fr[p])]]
          /\ UNCHANGED ec2vars
       \/ /\ CreateCallFails(p, "create_vpc", None, fr[p].cidr_block)
          /\ UNCHANGED ec2vars
    /\ UNCHANGED <<table, clock, started, hist, fnvars>>

\* line 37
ModifyDnsHostnames(p) ==
    /\ fr[p].pc = "modify_dns_hostnames"
    /\ \/ /\ vpcs' = {IF v.id = fr[p].vpc_id THEN [v EXCEPT !.dns_hostnames = TRUE] ELSE v
                        : v \in vpcs}
          /\ fr' = [fr EXCEPT ![p] =
                       [Logged(@, "modify_vpc_attribute", @.vpc_id, <<>>)
                           EXCEPT !.pc = "modify_dns_support"]]
       \/ /\ CreateCallFails(p, "modify_vpc_attribute", fr[p].vpc_id, <<>>)
          /\ UNCHANGED vpcs
    /\ UNCHANGED <<subnets, igws, rtbs, zones, next_id, table, clock, started, hist, fnvars>>

\* line 38
ModifyDnsSupport(p) ==
    /\ fr[p].pc = "modify_dns_support"
    /\ \/ /\ vpcs' = {IF v.id = fr[p].vpc_id THEN [v EXCEPT !.dns_support = TRUE] ELSE v
                        : v \in vpcs}
          /\ fr' = [fr EXCEPT ![p] =
                       [Logged(@, "modify_vpc_attribute", @.vpc_id, <<>>)
                           EXCEPT !.pc = "describe_availability_zones"]]
       \/ /\ CreateCallFails(p, "modify_vpc_attribute", fr[p].vpc_id, <<>>)
          /\ UNCHANGED vpcs
    /\ UNCHANGED <<subnets, igws, rtbs, zones, next_id, table, clock, started, hist, fnvars>>

\* lines 216-220: the names of the zones whose state is 'available'
_get_availability_zones ==
    LET avail == SelectSeq(zones, LAMBDA z : z.state = "available")
    IN  [i \in 1..Len(avail) |-> avail[i].name]

\* line 41 falling back on a zone of the region
primary_az_of_default(azs) == IF azs # <<>> THEN azs[1] ELSE "us-east-2a"

\* line 41: azs[0] if azs else None
primary_az_of(azs) == IF azs # <<>> THEN azs[1] ELSE NoneAz

\* lines 40-41
DescribeAvailabilityZones(p) ==
    /\ fr[p].pc = "describe_availability_zones"
    /\ \/ fr' = [fr EXCEPT ![p] =
                    [Logged(@, "describe_availability_zones", None, <<>>)
                        EXCEPT !.primary_az = primary_az_of(_get_availability_zones),
                               !.pc = "create_subnet_public"]]
       \/ CreateCallFails(p, "describe_availability_zones", None, <<>>)
    /\ UNCHANGED <<ec2vars, table, clock, started, hist, fnvars>>

\* the network container with this identifier at the provider, if any
VpcOf(id) == {v \in vpcs : v.id = id}

\* the provider refuses a subnetwork whose range is not inside its network's
SubnetAccepted(vpc_id, cidr) ==
    \E v \in VpcOf(vpc_id) : WellFormed(cidr) /\ WellFormed(v.cidr) /\ SubRange(cidr, v.cidr)

\* lines 144-154 of _create_subnet, for the call of lines 43-50 or 52-59
CreateSubnetCall(p, index, next_pc) ==
    LET cidr == _calculate_subnet_cidr(fr[p].cidr_block, index) IN
    IF fr[p].primary_az = NoneAz
    THEN \* AvailabilityZone=None never leaves the client; line 92 catches it
         /\ fr' = [fr EXCEPT ![p] = [@ EXCEPT !.exc = ParamValidationError("create_subnet"),
                                                !.pc = "create_raise"]]
         /\ UNCHANGED ec2vars
    ELSE \/ /\ SubnetAccepted(fr[p].vpc_id, cidr)
            /\ subnets' = subnets \cup {[id |-> next_id, vpc |-> fr[p].vpc_id, cidr |-> cidr,
                                         az |-> fr[p].primary_az, map_public |-> FALSE]}
            /\ next_id' = next_id + 1
            /\ fr' = [fr EXCEPT ![p] =
                         [Logged(@, "create_subnet", @.vpc_id, cidr)
                             EXCEPT !.subnet_id = next_id, !.pc = next_pc]]
            /\ UNCHANGED <<vpcs, igws, rtbs, zones>>
         \/ /\ ~SubnetAccepted(fr[p].vpc_id, cidr)
            /\ fr' = [fr EXCEPT ![p] =
                         [Logged(@, "create_subnet", @.vpc_id, cidr)
                             EXCEPT !.exc = ClientError("InvalidSubnet.Range", "create_subnet"),
                                    !.pc = create_vpc_except(fr[p])]]
            /\ UNCHANGED ec2vars
         \/ /\ CreateCallFails(p, "create_subnet", fr[p].vpc_id, cidr)
            /\ UNCHANGED ec2vars

\* the dict with the type of the public subnet whatever was asked
SubnetDict_public(f, index, subnet_type) ==
    [subnet_id |-> f.subnet_id,
     cidr_block |-> _calculate_subnet_cidr(f.cidr_block, index),
     availability_zone |-> f.primary_az,
     type |-> "public"]

\* lines 164-169: the dict _create_subnet returns
SubnetDict(f, index, subnet_type) ==
    [subnet_id |-> f.subnet_id,
     cidr_block |-> _calculate_subnet_cidr(f.cidr_block, index),
     availability_zone |-> f.primary_az,
     type |-> subnet_type]

\* lines 43-50 with 144-154
CreatePublicSubnet(p) ==
    /\ fr[p].pc = "create_subnet_public"
    /\ CreateSubnetCall(p, 1, "modify_subnet_attribute")
    /\ UNCHANGED <<table, clock, started, hist, fnvars>>

\* lines 156-169: only the public subnet is marked to auto-assign addresses
ModifySubnetAttribute(p) ==
    /\ fr[p].pc = "modify_subnet_attribute"
    /\ \/ /\ subnets' = {IF s.id = fr[p].subnet_id THEN [s EXCEPT !.map_public = TRUE] ELSE s
                           : s \in subnets}
          /\ fr' = [fr EXCEPT ![p] =
                       [Logged(@, "modify_subnet_attribute", @.subnet_id, <<>>)
                           EXCEPT !.public_subnet = SubnetDict(fr[p], 1, "public"),
                                  !.pc = "create_subnet_private"]]
       \/ /\ CreateCallFails(p, "modify_subnet_attribute", fr[p].subnet_id, <<>>)
          /\ UNCHANGED subnets
    /\ UNCHANGED <<vpcs, igws, rtbs, zones, next_id, table, clock, started, hist, fnvars>>

\* lines 52-59 with 144-154
CreatePrivateSubnet(p) ==
    /\ fr[p].pc = "create_subnet_private"
    /\ CreateSubnetCall(p, 2, "private_subnet_created")
    /\ UNCHANGED <<table, clock, started, hist, fnvars>>

\* lines 162-169 for the private subnet: no call, the dict is returned
ReturnPrivateSubnet(p) ==
    /\ fr[p].pc = "private_subnet_created"
    /\ fr' = [fr EXCEPT ![p] = [@ EXCEPT !.private_subnet = SubnetDict(fr[p], 2, "private"),
                                           !.pc = "create_internet_gateway"]]
    /\ UNCHANGED <<ec2vars, table, clock, started, hist, fnvars>>

\* lines 173-180
CreateInternetGateway(p) ==
    /\ fr[p].pc = "create_internet_gateway"
    /\ \/ /\ igws' = igws \cup {[id |-> next_id, vpc |-> None]}
          /\ next_id' = next_id + 1
          /\ fr' = [fr EXCEPT ![p] =
                       [Logged(@, "create_internet_gateway", None, <<>>)
                           EXCEPT !.igw_id = next_id, !.pc = "attach_internet_gateway"]]
       \/ /\ CreateCallFails(p, "create_internet_gateway", None, <<>>)
          /\ UNCHANGED <<igws, next_id>>
    /\ UNCHANGED <<vpcs, subnets, rtbs, zones, table, clock, started, hist, fnvars>>

\* lines 182-188
AttachInternetGateway(p) ==
    /\ fr[p].pc = "attach_internet_gateway"
    /\ \/ /\ igws' = {IF g.id = fr[p].igw_id THEN [g EXCEPT !.vpc = fr[p].vpc_id] ELSE g
                        : g \in igws}
          /\ fr' = [fr EXCEPT ![p] =
                       [Logged(@, "attach_internet_gateway", @.igw_id, <<>>)
                           EXCEPT !.pc = "create_route_table"]]
       \/ /\ CreateCallFails(p, "attach_internet_gateway", fr[p].igw_id, <<>>)
          /\ UNCHANGED igws
    /\ UNCHANGED <<vpcs, subnets, rtbs, zones, next_id, table, clock, started, hist, fnvars>>

\* lines 192-200
CreateRouteTable(p) ==
    /\ fr[p].pc = "create_route_table"
    /\ \/ /\ rtbs' = rtbs \cup {[id |-> next_id, vpc |-> fr[p].vpc_id, main |-> FALSE,
                                 routes |-> {}, associations |-> {}]}
          /\ next_id' = next_id + 1
          /\ fr' = [fr EXCEPT ![p] =
                       [Logged(@, "create_route_table", @.vpc_id, <<>>)
                           EXCEPT !.rtb_id = next_id, !.pc = "create_route"]]
       \/ /\ CreateCallFails(p, "create_route_table", fr[p].vpc_id, <<>>)
          /\ UNCHANGED <<rtbs, next_id>>
    /\ UNCHANGED <<vpcs, subnets, igws, zones, table, clock, started, hist, fnvars>>

\* lines 202-206
CreateRoute(p) ==
    /\ fr[p].pc = "create_route"
    /\ \/ /\ rtbs' = {IF t.id = fr[p].rtb_id
                      THEN [t EXCEPT !.routes = @ \cup {[dest |-> DefaultRoute,
                                                          gateway |-> fr[p].igw_id]}]
                      ELSE t : t \in rtbs}
          /\ fr' = [fr EXCEPT ![p] =
                       [Logged(@, "create_route", @.rtb_id, DefaultRoute)
                           EXCEPT !.pc = "associate_route_table"]]
       \/ /\ CreateCallFails(p, "create_route", fr[p].rtb_id, DefaultRoute)
          /\ UNCHANGED rtbs
    /\ UNCHANGED <<vpcs, subnets, igws, zones, next_id, table, clock, started, hist, fnvars>>

\* the route table associated with the private subnet as well
AssociateRouteTable_both(p) ==
    /\ fr[p].pc = "associate_route_table"
    /\ \/ /\ rtbs' = {IF t.id = fr[p].rtb_id
                      THEN [t EXCEPT !.associations =
                               @ \cup {[main |-> FALSE,
                                        subnet |-> fr[p].public_subnet.subnet_id],
                                       [main |-> FALSE,
                                        subnet |-> fr[p].private_subnet.subnet_id]}]
                      ELSE t : t \in rtbs}
          /\ fr' = [fr EXCEPT ![p] =
                       [Logged(@, "associate_route_table", @.rtb_id, <<>>)
                           EXCEPT !.pc = "create_return"]]
       \/ /\ CreateCallFails(p, "associate_route_table", fr[p].rtb_id, <<>>)
          /\ UNCHANGED rtbs
    /\ UNCHANGED <<vpcs, subnets, igws, zones, next_id, table, clock, started, hist, fnvars>>

\* lines 208-214
AssociateRouteTable(p) ==
    /\ fr[p].pc = "associate_route_table"
    /\ \/ /\ rtbs' = {IF t.id = fr[p].rtb_id
                      THEN [t EXCEPT !.associations =
                               @ \cup {[main |-> FALSE,
                                        subnet |-> fr[p].public_subnet.subnet_id]}]
                      ELSE t : t \in rtbs}
          /\ fr' = [fr EXCEPT ![p] =
                       [Logged(@, "associate_route_table", @.rtb_id, <<>>)
                           EXCEPT !.pc = "create_return"]]
       \/ /\ CreateCallFails(p, "associate_route_table", fr[p].rtb_id, <<>>)
          /\ UNCHANGED rtbs
    /\ UNCHANGED <<vpcs, subnets, igws, zones, next_id, table, clock, started, hist, fnvars>>

\* lines 71-82 listing the subnets in the other order
vpc_details_swapped(f, now) ==
    [vpc_id |-> f.vpc_id, name |-> f.name, cidr_block |-> f.cidr_block, region |-> Region,
     subnets |-> <<f.private_subnet, f.public_subnet>>,
     internet_gateway_id |-> f.igw_id, route_tables |-> [k \in {"public"} |-> f.rtb_id],
     status |-> "available", created_at |-> now, created_by |-> "vpc-api",
     has_details |-> TRUE]

\* lines 71-82: the record create_vpc returns
vpc_details(f, now) ==
    [vpc_id |-> f.vpc_id, name |-> f.name, cidr_block |-> f.cidr_block, region |-> Region,
     subnets |-> <<f.public_subnet, f.private_subnet>>,
     internet_gateway_id |-> f.igw_id, route_tables |-> [k \in {"public"} |-> f.rtb_id],
     status |-> "available", created_at |-> now, created_by |-> "vpc-api",
     has_details |-> TRUE]

(***************************************************************************)
(* common/vpc_manager.py: VPCManager.delete_vpc, run by the rollback of    *)
(* create_vpc and by the delete handler                                    *)
(***************************************************************************)

\* the loops of lines 103-115 left out: nothing is deleted before the network
AfterList_skipping(todo, loop_pc, next_pc) == next_pc

\* the position after the subnet loop, the route-table loop, the gateway loop
AfterList(todo, loop_pc, next_pc) == IF todo = <<>> THEN next_pc ELSE loop_pc

\* _cleanup_failed_vpc letting the rollback error take the place of the
\* creation error
DeleteRaises_replacing(f, e) ==
    IF f.kind = "create"
    THEN [f EXCEPT !.exc = e, !.rb_exc = e, !.pc = "create_raise"]
    ELSE [f EXCEPT !.exc = e, !.pc = "d_raise"]

\* the delete handler raising InvalidVpcID.NotFound like any other error
DeleteRaises_reraising(f, e) ==
    IF f.kind = "create"
    THEN [f EXCEPT !.rb_exc = e, !.pc = "create_raise"]
    ELSE [f EXCEPT !.exc = e, !.pc = "d_raise"]

\* the delete handler taking every provider error for "network not found"
DeleteRaises_swallowing(f, e) ==
    IF f.kind = "create"
    THEN [f EXCEPT !.rb_exc = e, !.pc = "create_raise"]
    ELSE [f EXCEPT !.deletion = [vpc_id |-> f.vpc_id, status |-> "deleted", note |-> TRUE],
                   !.pc = "d_delete_meta"]

\* lines 126-128 raise the error to the caller of delete_vpc:
\* _cleanup_failed_vpc (lines 267-268) logs it and returns; the delete
\* handler (delete_vpc.py lines 62-72) turns InvalidVpcID.NotFound into a
\* deletion record and raises anything else to its own except clauses
DeleteRaises(f, e) ==
    IF f.kind = "create"
    THEN [f EXCEPT !.rb_exc = e, !.pc = "create_raise"]
    ELSE IF e.code = "InvalidVpcID.NotFound"
    THEN [f EXCEPT !.deletion = [vpc_id |-> f.vpc_id, status |-> "deleted", note |-> TRUE],
                   !.pc = "d_delete_meta"]
    ELSE [f EXCEPT !.exc = e, !.pc = "d_raise"]

\* the frame after the provider answered its last call with this error code
Answered(f, code) == [f EXCEPT !.answer = code]

\* a provider call of delete_vpc answered with an error
DeleteCallFails(p, op, id) ==
    \E code \in InjectedCodes(op) :
        fr' = [fr EXCEPT ![p] = DeleteRaises(Answered(Logged(@, op, id, <<>>), code),
                                            ClientError(code, op))]

\* a provider call of delete_vpc answered with this error
DeleteCallRejected(p, op, id, code) ==
    fr' = [fr EXCEPT ![p] = DeleteRaises(Answered(Logged(@, op, id, <<>>), code),
                                        ClientError(code, op))]

\* line 103: vpc.subnets.all() lists the subnets of the network
DelDescribeSubnets(p) ==
    /\ fr[p].pc = "del_describe_subnets"
    /\ \/ LET todo == SortedSeq({s.id : s \in {x \in subnets : x.vpc = fr[p].vpc_id}})
          IN  fr' = [fr EXCEPT ![p] =
                        [Logged(@, "describe_subnets", @.vpc_id, <<>>)
                            EXCEPT !.todo = todo,
                                   !.pc = AfterList(todo, "del_delete_subnet",
                                                    "del_describe_route_tables")]]
       \/ DeleteCallFails(p, "describe_subnets", fr[p].vpc_id)
    /\ UNCHANGED <<ec2vars, table, clock, started, hist, fnvars>>

\* line 105: subnet.delete(); the provider drops the subnet's associations
DelDeleteSubnet(p) ==
    /\ fr[p].pc = "del_delete_subnet"
    /\ LET id == Head(fr[p].todo) IN
       \/ /\ \E s \in subnets : s.id = id
          /\ subnets' = {s \in subnets : s.id # id}
          /\ rtbs' = {[t EXCEPT !.associations = {a \in @ : a.subnet # id}] : t \in rtbs}
          /\ fr' = [fr EXCEPT ![p] =
                       [Logged(@, "delete_subnet", id, <<>>)
                           EXCEPT !.todo = Tail(@),
                                  !.pc = AfterList(Tail(fr[p].todo), "del_delete_subnet",
                                                   "del_describe_route_tables")]]
       \/ /\ ~\E s \in subnets : s.id = id
          /\ DeleteCallRejected(p, "delete_subnet", id, "InvalidSubnetID.NotFound")
          /\ UNCHANGED <<subnets, rtbs>>
       \/ /\ DeleteCallFails(p, "delete_subnet", id)
          /\ UNCHANGED <<subnets, rtbs>>
    /\ UNCHANGED <<vpcs, igws, zones, next_id, table, clock, started, hist, fnvars>>

\* lines 257-261
_is_main_route_table(route_table) == \E a \in route_table.associations : a.main

\* lines 107-108: vpc.route_tables.all(), the main table skipped
DelDescribeRouteTables(p) ==
    /\ fr[p].pc = "del_describe_route_tables"
    /\ \/ LET todo == SortedSeq({t.id : t \in {x \in rtbs : /\ x.vpc = fr[p].vpc_id
                                                            /\ ~_is_main_route_table(x)}})
          IN  fr' = [fr EXCEPT ![p] =
                        [Logged(@, "describe_route_tables", @.vpc_id, <<>>)
                            EXCEPT !.todo = todo,
                                   !.pc = AfterList(todo, "del_delete_route_table",
                                                    "del_describe_internet_gateways")]]
       \/ DeleteCallFails(p, "describe_route_tables", fr[p].vpc_id)
    /\ UNCHANGED <<ec2vars, table, clock, started, hist, fnvars>>

\* line 110: route_table.delete()
DelDeleteRouteTable(p) ==
    /\ fr[p].pc = "del_delete_route_table"
    /\ LET id == Head(fr[p].todo) IN
       \/ /\ \E t \in rtbs : t.id = id /\ ~t.main /\ t.associations = {}
          /\ rtbs' = {t \in rtbs : t.id # id}
          /\ fr' = [fr EXCEPT ![p] =
                       [Logged(@, "delete_route_table", id, <<>>)
                           EXCEPT !.todo = Tail(@),
                                  !.pc = AfterList(Tail(fr[p].todo), "del_delete_route_table",
                                                   "del_describe_internet_gateways")]]
       \/ /\ \E t \in rtbs : t.id = id /\ (t.main \/ t.associations # {})
          /\ DeleteCallRejected(p, "delete_route_table", id, "DependencyViolation")
          /\ UNCHANGED rtbs
       \/ /\ ~\E t \in rtbs : t.id = id
          /\ DeleteCallRejected(p, "delete_route_table", id, "InvalidRouteTableID.NotFound")
          /\ UNCHANGED rtbs
       \/ /\ DeleteCallFails(p, "delete_route_table", id)
          /\ UNCHANGED rtbs
    /\ UNCHANGED <<vpcs, subnets, igws, zones, next_id, table, clock, started, hist, fnvars>>

\* line 112: vpc.internet_gateways.all() lists the gateways attached to the network
DelDescribeInternetGateways(p) ==
    /\ fr[p].pc = "del_describe_internet_gateways"
    /\ \/ LET todo == SortedSeq({g.id : g \in {x \in igws : x.vpc = fr[p].vpc_id}})
          IN  fr' = [fr EXCEPT ![p] =
                        [Logged(@, "describe_internet_gateways", @.vpc_id, <<>>)
                            EXCEPT !.todo = todo,
                                   !.pc = AfterList(todo, "del_detach_internet_gateway",
                                                    "del_delete_vpc")]]
       \/ DeleteCallFails(p, "describe_internet_gateways", fr[p].vpc_id)
    /\ UNCHANGED <<ec2vars, table, clock, started, hist, fnvars>>

\* the gateway loop without igw.delete(): the gateway is detached and kept
DelDetachInternetGateway_only(p) ==
    /\ fr[p].pc = "del_detach_internet_gateway"
    /\ LET id == Head(fr[p].todo) IN
       \/ /\ \E g \in igws : g.id = id /\ g.vpc = fr[p].vpc_id
          /\ igws' = {IF g.id = id THEN [g EXCEPT !.vpc = None] ELSE g : g \in igws}
          /\ fr' = [fr EXCEPT ![p] =
                       [Logged(@, "detach_internet_gateway", id, <<>>)
                           EXCEPT !.todo = Tail(@),
                                  !.pc = AfterList(Tail(fr[p].todo),
                                                   "del_detach_internet_gateway",
                                                   "del_delete_vpc")]]
       \/ /\ ~\E g \in igws : g.id = id /\ g.vpc = fr[p].vpc_id
          /\ DeleteCallRejected(p, "detach_internet_gateway", id, "Gateway.NotAttached")
          /\ UNCHANGED igws
       \/ /\ DeleteCallFails(p, "detach_internet_gateway", id)
          /\ UNCHANGED igws
    /\ UNCHANGED <<vpcs, subnets, rtbs, zones, next_id, table, clock, started, hist, fnvars>>

\* line 114: vpc.detach_internet_gateway
DelDetachInternetGateway(p) ==
    /\ fr[p].pc = "del_detach_internet_gateway"
    /\ LET id == Head(fr[p].todo) IN
       \/ /\ \E g \in igws : g.id = id /\ g.vpc = fr[p].vpc_id
          /\ igws' = {IF g.id = id THEN [g EXCEPT !.vpc = None] ELSE g : g \in igws}
          /\ fr' = [fr EXCEPT ![p] =
                       [Logged(@, "detach_internet_gateway", id, <<>>)
                           EXCEPT !.pc = "del_delete_internet_gateway"]]
       \/ /\ ~\E g \in igws : g.id = id /\ g.vpc = fr[p].vpc_id
          /\ DeleteCallRejected(p, "detach_internet_gateway", id, "Gateway.NotAttached")
          /\ UNCHANGED igws
       \/ /\ DeleteCallFails(p, "detach_internet_gateway", id)
          /\ UNCHANGED igws
    /\ UNCHANGED <<vpcs, subnets, rtbs, zones, next_id, table, clock, started, hist, fnvars>>

\* line 115: igw.delete()
DelDeleteInternetGateway(p) ==
    /\ fr[p].pc = "del_delete_internet_gateway"
    /\ LET id == Head(fr[p].todo) IN
       \/ /\ \E g \in igws : g.id = id /\ g.vpc = None
          /\ igws' = {g \in igws : g.id # id}
          /\ fr' = [fr EXCEPT ![p] =
                       [Logged(@, "delete_internet_gateway", id, <<>>)
                           EXCEPT !.todo = Tail(@),
                                  !.pc = AfterList(Tail(fr[p].todo),
                                                   "del_detach_internet_gateway",
                                                   "del_delete_vpc")]]
       \/ /\ \E g \in igws : g.id = id /\ g.vpc # None
          /\ DeleteCallRejected(p, "delete_internet_gateway", id, "DependencyViolation")
          /\ UNCHANGED igws
       \/ /\ ~\E g \in igws : g.id = id
          /\ DeleteCallRejected(p, "delete_internet_gateway", id,
                                "InvalidInternetGatewayID.NotFound")
          /\ UNCHANGED igws
       \/ /\ DeleteCallFails(p, "delete_internet_gateway", id)
          /\ UNCHANGED igws
    /\ UNCHANGED <<vpcs, subnets, rtbs, zones, next_id, table, clock, started, hist, fnvars>>

\* what keeps the provider from deleting a network
HasDependents(id) ==
    \/ \E s \in subnets : s.vpc = id
    \/ \E g \in igws : g.vpc = id
    \/ \E t \in rtbs : t.vpc = id /\ ~t.main

\* lines 120-124: the record delete_vpc returns, to the rollback (which
\* drops it, line 266) or to the delete handler (delete_vpc.py line 60)
DeleteReturns(f) ==
    IF f.kind = "create"
    THEN [f EXCEPT !.rb_done = TRUE, !.pc = "create_raise"]
    ELSE [f EXCEPT !.deletion = [vpc_id |-> f.vpc_id, status |-> "deleted", note |-> FALSE],
                   !.pc = "d_delete_meta"]

\* lines 117-124: vpc.delete(); the main route table goes with the network
DelDeleteVpc(p) ==
    /\ fr[p].pc = "del_delete_vpc"
    /\ LET id == fr[p].vpc_id IN
       \/ /\ VpcOf(id) # {} /\ ~HasDependents(id)
          /\ vpcs' = {v \in vpcs : v.id # id}
          /\ rtbs' = {t \in rtbs : t.vpc # id}
          /\ fr' = [fr EXCEPT ![p] = DeleteReturns(Logged(@, "delete_vpc", id, <<>>))]
       \/ /\ VpcOf(id) # {} /\ HasDependents(id)
          /\ DeleteCallRejected(p, "delete_vpc", id, "DependencyViolation")
          /\ UNCHANGED <<vpcs, rtbs>>
       \/ /\ VpcOf(id) = {}
          /\ DeleteCallRejected(p, "delete_vpc", id, "InvalidVpcID.NotFound")
          /\ UNCHANGED <<vpcs, rtbs>>
       \/ /\ DeleteCallFails(p, "delete_vpc", id)
          /\ UNCHANGED <<vpcs, rtbs>>
    /\ UNCHANGED <<subnets, igws, zones, next_id, table, clock, started, hist, fnvars>>

(***************************************************************************)
(* common/dynamodb.py: VPCMetadataStore                                    *)
(***************************************************************************)

\* table.put_item(Item=item): the item replaces the one with its key
PutItem(item) == {i \in table : i.vpc_id # item.vpc_id} \cup {item}

\* table.get_item(Key={'vpc_id': vpc_id}): the items with that key
GetItem(vpc_id) == {i \in table : i.vpc_id = vpc_id}

(***************************************************************************)
(* create_vpc.py: the create handler, and VPCManager.create_vpc called     *)
(* directly                                                                *)
(***************************************************************************)

Response(status) == [NoOut EXCEPT !.kind = "response", !.status = status]

\* create_vpc.py lines 76-104: the response for an exception of the try
create_handler_except(e) ==
    IF e.type = "ClientError"
    THEN IF e.code \in {"VpcLimitExceeded", "InvalidVpcRange"}
         THEN [Response(400) EXCEPT !.exc = e]
         ELSE [Response(500) EXCEPT !.exc = e]
    ELSE IF e.type = "ValueError"
    THEN [Response(400) EXCEPT !.exc = e]
    ELSE [Response(500) EXCEPT !.exc = e]

\* create_vpc.py lines 37-56: validate the body, then call the manager with
\* the validated name and range (the body is not read again)
HandlerValidate(p) ==
    /\ fr[p].pc = "h_validate"
    /\ LET v == validate_create_vpc_request(fr[p].body) IN
       fr' = [fr EXCEPT ![p] =
                 IF v.ok
                 THEN [@ EXCEPT !.name = v.data.name, !.cidr_block = v.data.cidr_block,
                                !.body = <<>>, !.pc = "validate"]
                 ELSE [@ EXCEPT !.out = Response(400), !.body = <<>>, !.pc = "done"]]
    /\ UNCHANGED <<ec2vars, table, clock, started, hist, fnvars>>

\* vpc_manager.py lines 71-85: create_vpc returns the record
CreateReturn(p) ==
    /\ fr[p].pc = "create_return"
    /\ clock' = clock + 1
    /\ fr' = [fr EXCEPT ![p] =
                 IF @.entry = "manager"
                 THEN [@ EXCEPT !.details = vpc_details(fr[p], clock),
                                !.out = [NoOut EXCEPT !.kind = "returned",
                                                      !.data = vpc_details(fr[p], clock)],
                                !.pc = "done"]
                 ELSE [@ EXCEPT !.details = vpc_details(fr[p], clock),
                                !.pc = "save_vpc"]]
    /\ hist' = [hist EXCEPT !.created = @ \cup {fr[p].vpc_id}]
    /\ UNCHANGED <<ec2vars, table, started, fnvars>>

\* the create handler storing a record of the failed create
CreateRaise_saving(p) ==
    /\ fr[p].pc = "create_raise"
    /\ fr' = [fr EXCEPT ![p] =
                 IF @.entry = "manager"
                 THEN [@ EXCEPT !.out = [NoOut EXCEPT !.kind = "raised", !.exc = fr[p].exc],
                                !.pc = "done"]
                 ELSE [@ EXCEPT !.out = create_handler_except(fr[p].exc), !.pc = "done"]]
    /\ table' = IF fr[p].entry = "handler" /\ fr[p].vpc_id # None
                THEN PutItem([NoDetails EXCEPT !.vpc_id = fr[p].vpc_id, !.status = "failed"])
                ELSE table
    /\ UNCHANGED <<ec2vars, clock, started, hist, fnvars>>

\* vpc_manager.py lines 91 and 94: the exception caught is raised again,
\* to the direct caller or to the except clauses of the create handler
CreateRaise(p) ==
    /\ fr[p].pc = "create_raise"
    /\ fr' = [fr EXCEPT ![p] =
                 IF @.entry = "manager"
                 THEN [@ EXCEPT !.out = [NoOut EXCEPT !.kind = "raised", !.exc = fr[p].exc],
                                !.pc = "done"]
                 ELSE [@ EXCEPT !.out = create_handler_except(fr[p].exc), !.pc = "done"]]
    /\ UNCHANGED <<ec2vars, table, clock, started, hist, fnvars>>

\* the create handler tearing the network down when save_vpc raises
SaveVpc_rollback(p) ==
    /\ fr[p].pc = "save_vpc"
    /\ \/ /\ table' = PutItem(fr[p].details)
          /\ hist' = [hist EXCEPT !.saved = @ \cup {fr[p].vpc_id}]
          /\ fr' = [fr EXCEPT ![p] =
                       [@ EXCEPT !.out = [Response(201) EXCEPT !.data = fr[p].details],
                                 !.pc = "done"]]
       \/ /\ table' = table
          /\ hist' = hist
          /\ fr' = [fr EXCEPT ![p] =
                       [@ EXCEPT !.exc = ClientError("InternalServerError", "put_item"),
                                 !.pc = "del_describe_subnets"]]
    /\ UNCHANGED <<ec2vars, clock, started, fnvars>>

\* create_vpc.py lines 61-70 with dynamodb.py lines 18-33
SaveVpc(p) ==
    /\ fr[p].pc = "save_vpc"
    /\ \/ /\ table' = PutItem(fr[p].details)
          /\ hist' = [hist EXCEPT !.saved = @ \cup {fr[p].vpc_id}]
          /\ fr' = [fr EXCEPT ![p] =
                       [@ EXCEPT !.out = [Response(201) EXCEPT !.data = fr[p].details],
                                 !.pc = "done"]]
       \/ /\ table' = table
          /\ hist' = hist
          /\ fr' = [fr EXCEPT ![p] =
                       [@ EXCEPT !.out = create_handler_except(
                                             ClientError("InternalServerError", "put_item")),
                                 !.pc = "done"]]
    /\ UNCHANGED <<ec2vars, clock, started, fnvars>>

(***************************************************************************)
(* delete_vpc.py: the delete handler                                       *)
(***************************************************************************)

\* delete_vpc.py lines 85-104: the response for an exception of the try
delete_handler_except(e) ==
    IF e.type = "ClientError" /\ e.code = "DependencyViolation"
    THEN [Response(400) EXCEPT !.exc = e]
    ELSE [Response(500) EXCEPT !.exc = e]

\* a DynamoDB call of the delete handler answered with an error
StoreCallFails(p, op) ==
    fr' = [fr EXCEPT ![p] =
              [@ EXCEPT !.out = delete_handler_except(ClientError("InternalServerError", op)),
                        !.pc = "done"]]

\* the delete handler starting the teardown without the status update of
\* lines 55-56
DeleteGet_skipping(p) ==
    /\ fr[p].pc = "d_get"
    /\ \/ fr' = [fr EXCEPT ![p] =
                    IF GetItem(@.vpc_id) = {}
                    THEN [@ EXCEPT !.out = Response(404), !.pc = "done"]
                    ELSE [@ EXCEPT !.pc = "del_describe_subnets"]]
       \/ StoreCallFails(p, "get_item")
    /\ UNCHANGED <<ec2vars, table, clock, started, hist, fnvars>>

\* the delete handler without the not-found return of lines 50-52
DeleteGet_proceeding(p) ==
    /\ fr[p].pc = "d_get"
    /\ \/ fr' = [fr EXCEPT ![p] = [@ EXCEPT !.pc = "d_update_status"]]
       \/ StoreCallFails(p, "get_item")
    /\ UNCHANGED <<ec2vars, table, clock, started, hist, fnvars>>

\* delete_vpc.py lines 49-52 with dynamodb.py lines 35-49
DeleteGet(p) ==
    /\ fr[p].pc = "d_get"
    /\ \/ fr' = [fr EXCEPT ![p] =
                    IF GetItem(@.vpc_id) = {}
                    THEN [@ EXCEPT !.out = Response(404), !.pc = "done"]
                    ELSE [@ EXCEPT !.pc = "d_update_status"]]
       \/ StoreCallFails(p, "get_item")
    /\ UNCHANGED <<ec2vars, table, clock, started, hist, fnvars>>

\* dynamodb.py lines 86-92: update_item carries no condition, so DynamoDB
\* sets the attribute on the stored item or, when no item has the key,
\* stores a new item holding the key and the attribute
UpdateItem(vpc_id, status) ==
    IF GetItem(vpc_id) = {}
    THEN table \cup {[NoDetails EXCEPT !.vpc_id = vpc_id, !.status = status]}
    ELSE {IF i.vpc_id = vpc_id THEN [i EXCEPT !.status = status] ELSE i : i \in table}

\* delete_vpc.py lines 55-56 with dynamodb.py lines 82-102
DeleteUpdateStatus(p) ==
    /\ fr[p].pc = "d_update_status"
    /\ \/ /\ table' = UpdateItem(fr[p].vpc_id, "deleting")
          /\ fr' = [fr EXCEPT ![p] = [@ EXCEPT !.pc = "del_describe_subnets"]]
       \/ /\ StoreCallFails(p, "update_item")
          /\ table' = table
    /\ UNCHANGED <<ec2vars, clock, started, hist, fnvars>>

\* delete_vpc.py line 75 with dynamodb.py lines 68-71: the read of delete_vpc
DeleteMetaGet(p) ==
    /\ fr[p].pc = "d_delete_meta"
    /\ \/ /\ fr' = [fr EXCEPT ![p] =
                    IF GetItem(@.vpc_id) = {}
                    THEN [@ EXCEPT !.out = [Response(200) EXCEPT !.deletion = fr[p].deletion],
                                   !.pc = "done"]
                    ELSE [@ EXCEPT !.pc = "d_delete_item"]]
          /\ hist' = IF GetItem(fr[p].vpc_id) = {}
                     THEN [hist EXCEPT !.deleted = @ \cup {fr[p].vpc_id}] ELSE hist
       \/ /\ StoreCallFails(p, "get_item")
          /\ hist' = hist
    /\ UNCHANGED <<ec2vars, table, clock, started, fnvars>>

\* dynamodb.py lines 73-76, then delete_vpc.py lines 79-83
DeleteMetaItem(p) ==
    /\ fr[p].pc = "d_delete_item"
    /\ \/ /\ table' = {i \in table : i.vpc_id # fr[p].vpc_id}
          /\ hist' = [hist EXCEPT !.deleted = @ \cup {fr[p].vpc_id}]
          /\ fr' = [fr EXCEPT ![p] =
                       [@ EXCEPT !.out = [Response(200) EXCEPT !.deletion = fr[p].deletion],
                                 !.pc = "done"]]
       \/ /\ StoreCallFails(p, "delete_item")
          /\ table' = table
          /\ hist' = hist
    /\ UNCHANGED <<ec2vars, clock, started, fnvars>>

\* delete_vpc.py line 72 into lines 85-99
DeleteRaise(p) ==
    /\ fr[p].pc = "d_raise"
    /\ fr' = [fr EXCEPT ![p] = [@ EXCEPT !.out = delete_handler_except(fr[p].exc),
                                           !.pc = "done"]]
    /\ UNCHANGED <<ec2vars, table, clock, started, hist, fnvars>>

(***************************************************************************)
(* get_vpcs.py: the get handler; vpc_manager.py: describe_vpc              *)
(***************************************************************************)

\* a finished read request: its frame holds what the caller received
ReadFrame(entry, vpc_id, out) ==
    [IdleFrame EXCEPT !.kind = "get", !.entry = entry, !.vpc_id = vpc_id, !.out = out,
                      !.pc = "done"]

\* get_vpcs.py lines 38-45 with dynamodb.py lines 35-49: the stored item
get_handler(vpc_id) ==
    IF GetItem(vpc_id) = {} THEN Response(404)
    ELSE [Response(200) EXCEPT !.data = CHOOSE i \in GetItem(vpc_id) : TRUE]

\* the provider's description of a network: response['Vpcs'][0]
VpcDescription(v) == [VpcId |-> v.id, CidrBlock |-> v.cidr, State |-> "available"]

\* what the provider may answer describe_vpcs(VpcIds=[vpc_id]) with: the
\* description of the network, InvalidVpcID.NotFound or an empty list when
\* it has no such network, or an error whatever the state
DescribeVpcsAnswers(vpc_id) ==
    (IF VpcOf(vpc_id) # {}
     THEN {[Vpcs |-> <<VpcDescription(CHOOSE v \in VpcOf(vpc_id) : TRUE)>>, code |-> ""]}
     ELSE {[Vpcs |-> <<>>, code |-> "InvalidVpcID.NotFound"], [Vpcs |-> <<>>, code |-> ""]})
        \cup {[Vpcs |-> <<>>, code |-> c] : c \in InjectedCodes("describe_vpcs")}

\* the except clause returning None for every provider error
describe_vpc_swallowing(response) ==
    IF response.code = "" /\ response.Vpcs # <<>>
    THEN [NoOut EXCEPT !.kind = "returned", !.data = response.Vpcs[1]]
    ELSE [NoOut EXCEPT !.kind = "returned_none"]

\* vpc_manager.py lines 130-140: the first description of the response, None
\* for an empty response or the error InvalidVpcID.NotFound, any other
\* error raised
describe_vpc(response) ==
    IF response.code = ""
    THEN IF response.Vpcs # <<>>
         THEN [NoOut EXCEPT !.kind = "returned", !.data = response.Vpcs[1]]
         ELSE [NoOut EXCEPT !.kind = "returned_none"]
    ELSE IF response.code = "InvalidVpcID.NotFound"
    THEN [NoOut EXCEPT !.kind = "returned_none"]
    ELSE [NoOut EXCEPT !.kind = "raised",
                       !.exc = ClientError(response.code, "describe_vpcs")]

(***************************************************************************)
(* The requests                                                            *)
(***************************************************************************)

Name == <<"d">>
ManagerCidrs ==
    { Cidr16,
      << <<"10", "0", "0", "0">>, <<"28">> >>,
      << <<"256", "0", "0", "0">>, <<"16">> >>,
      << <<"10", "0", "0", "0">>, <<"15">> >>,
      << <<"10", "0", "0", "0">> >> }
Bodies ==
    { NoneBody,
      [name |-> Name],
      [name |-> <<"d", "\n">>, cidr_block |-> << <<"10", "0", "0", "0">>, <<"16 ">> >>],
      [name |-> <<"-", "d">>, cidr_block |-> Cidr16],
      [name |-> Name, cidr_block |-> << <<"256", "0", "0", "0">>, <<"16">> >>] }
ZoneConfigs ==
    { <<>>,
      <<[name |-> "us-east-2a", state |-> "available"],
        [name |-> "us-east-2b", state |-> "available"]>>,
      <<[name |-> "us-east-2a", state |-> "impaired"],
        [name |-> "us-east-2b", state |-> "available"]>> }

\* every request runs to its end before the next one starts
Quiet == \A q \in Procs : fr[q].pc \in {"idle", "done"}

\* the identifiers a request may name: those of the networks at the provider,
\* those of the stored items, those of the earlier delete requests, and one
\* the provider never issued
KnownIds ==
    {v.id : v \in vpcs} \cup {i.vpc_id : i \in table} \cup hist.deleting \cup {next_id}

\* a request starts in a fresh frame; the frames of the finished requests
\* are dropped
Fresh(p, f) == [q \in Procs |-> IF q = p THEN f ELSE IdleFrame]

\* VPCManager.create_vpc(name, cidr_block) called directly
StartManagerCreate(p) ==
    /\ Quiet /\ started < MaxRequests
    /\ \E cidr \in ManagerCidrs :
          fr' = Fresh(p, [IdleFrame EXCEPT !.kind = "create", !.entry = "manager",
                                           !.name = Name, !.cidr_block = cidr,
                                           !.pc = "validate"])
    /\ started' = started + 1
    /\ UNCHANGED <<ec2vars, table, clock, hist, fnvars>>

\* create_vpc.py lines 22-34: a POST with this body
StartHandlerCreate(p) ==
    /\ Quiet /\ started < MaxRequests
    /\ \E body \in Bodies :
          fr' = Fresh(p, [IdleFrame EXCEPT !.kind = "create", !.entry = "handler",
                                           !.body = body, !.pc = "h_validate"])
    /\ started' = started + 1
    /\ UNCHANGED <<ec2vars, table, clock, hist, fnvars>>

\* delete_vpc.py lines 22-46: a DELETE for this identifier
StartDelete(p) ==
    /\ Quiet /\ started < MaxRequests
    /\ \E id \in KnownIds :
          /\ fr' = Fresh(p, [IdleFrame EXCEPT !.kind = "delete", !.entry = "handler",
                                              !.vpc_id = id, !.pc = "d_get"])
          /\ hist' = [hist EXCEPT !.deleting = @ \cup {id}]
    /\ started' = started + 1
    /\ UNCHANGED <<ec2vars, table, clock, fnvars>>

\* get_vpcs.py lines 18-45: a GET for this identifier
StartGet(p) ==
    /\ Quiet /\ started < MaxRequests
    /\ \E id \in KnownIds :
          \/ fr' = Fresh(p, ReadFrame("handler", id, get_handler(id)))
          \/ fr' = Fresh(p, ReadFrame("handler", id,
                    [Response(500) EXCEPT
                        !.exc = ClientError("InternalServerError", "get_item")]))
    /\ started' = started + 1
    /\ UNCHANGED <<ec2vars, table, clock, hist, fnvars>>

\* VPCManager.describe_vpc(vpc_id) called directly
StartDescribe(p) ==
    /\ Quiet /\ started < MaxRequests
    /\ \E id \in KnownIds :
          \E response \in DescribeVpcsAnswers(id) :
              fr' = Fresh(p, Answered(Logged(ReadFrame("manager", id, describe_vpc(response)),
                                             "describe_vpcs", id, <<>>),
                                      response.code))
    /\ started' = started + 1
    /\ UNCHANGED <<ec2vars, table, clock, hist, fnvars>>

Init ==
    /\ vpcs = {} /\ subnets = {} /\ igws = {} /\ rtbs = {}
    /\ zones \in ZoneConfigs
    /\ next_id = 1
    /\ table = {}
    /\ clock = 1
    /\ fr = [p \in Procs |-> IdleFrame]
    /\ started = 0
    /\ hist = [created |-> {}, saved |-> {}, deleting |-> {}, deleted |-> {}]
    /\ fn_in = <<>> /\ fn_op = "none" /\ fn_out = Returned(FALSE, NoneMsg)

Next ==
    \E p \in Procs :
        \/ StartManagerCreate(p) \/ StartHandlerCreate(p) \/ StartDelete(p)
        \/ StartGet(p) \/ StartDescribe(p)
        \/ HandlerValidate(p) \/ CreateValidate(p) \/ CreateVpc(p)
        \/ ModifyDnsHostnames(p) \/ ModifyDnsSupport(p) \/ DescribeAvailabilityZones(p)
        \/ CreatePublicSubnet(p) \/ ModifySubnetAttribute(p) \/ CreatePrivateSubnet(p)
        \/ ReturnPrivateSubnet(p) \/ CreateInternetGateway(p) \/ AttachInternetGateway(p)
        \/ CreateRouteTable(p) \/ CreateRoute(p) \/ AssociateRouteTable(p)
        \/ CreateReturn(p) \/ CreateRaise(p) \/ SaveVpc(p)
        \/ DelDescribeSubnets(p) \/ DelDeleteSubnet(p) \/ DelDescribeRouteTables(p)
        \/ DelDeleteRouteTable(p) \/ DelDescribeInternetGateways(p)
        \/ DelDetachInternetGateway(p) \/ DelDeleteInternetGateway(p) \/ DelDeleteVpc(p)
        \/ DeleteGet(p) \/ DeleteUpdateStatus(p) \/ DeleteMetaGet(p) \/ DeleteMetaItem(p)
        \/ DeleteRaise(p)

Spec == Init /\ [][Next]_vars

(***************************************************************************)
(* The requests that follow a create: the delete handler and the reads on  *)
(* the state a POST {"name": "d"} answered 201 leaves behind               *)
(***************************************************************************)

\* the locals of that create when it returned
CreatedFrame ==
    LET az == primary_az_of(_get_availability_zones) IN
    [IdleFrame EXCEPT
        !.name = Name, !.cidr_block = Cidr16, !.vpc_id = 1, !.primary_az = az,
        !.public_subnet = [subnet_id |-> 3, cidr_block |-> _calculate_subnet_cidr(Cidr16, 1),
                           availability_zone |-> az, type |-> "public"],
        !.private_subnet = [subnet_id |-> 4, cidr_block |-> _calculate_subnet_cidr(Cidr16, 2),
                            availability_zone |-> az, type |-> "private"],
        !.igw_id = 5, !.rtb_id = 6]

\* the provider and the store after that create, the main route table of the
\* network listed with these association records
CreatedStateListing(main_associations) ==
    LET az == primary_az_of(_get_availability_zones) IN
    /\ vpcs = {[id |-> 1, cidr |-> Cidr16, dns_hostnames |-> TRUE, dns_support |-> TRUE]}
    /\ subnets = {[id |-> 3, vpc |-> 1, cidr |-> _calculate_subnet_cidr(Cidr16, 1),
                   az |-> az, map_public |-> TRUE],
                  [id |-> 4, vpc |-> 1, cidr |-> _calculate_subnet_cidr(Cidr16, 2),
                   az |-> az, map_public |-> FALSE]}
    /\ igws = {[id |-> 5, vpc |-> 1]}
    /\ rtbs = {[id |-> 2, vpc |-> 1, main |-> TRUE, routes |-> {},
                associations |-> main_associations],
               [id |-> 6, vpc |-> 1, main |-> FALSE,
                routes |-> {[dest |-> DefaultRoute, gateway |-> 5]},
                associations |-> {[main |-> FALSE, subnet |-> 3]}]}
    /\ next_id = 7
    /\ table = {vpc_details(CreatedFrame, 1)}
    /\ clock = 2
    /\ hist = [created |-> {1}, saved |-> {1}, deleting |-> {}, deleted |-> {}]

\* the provider and the store after that create
CreatedState == CreatedStateListing({[main |-> TRUE, subnet |-> None]})

InitCreated ==
    /\ zones \in {z \in ZoneConfigs : z # <<>>}
    /\ CreatedState
    /\ fr = [p \in Procs |-> IdleFrame]
    /\ started = 0
    /\ fn_in = <<>> /\ fn_op = "none" /\ fn_out = Returned(FALSE, NoneMsg)

NextCreated ==
    \E p \in Procs :
        \/ StartDelete(p) \/ StartGet(p) \/ StartDescribe(p)
        \/ DelDescribeSubnets(p) \/ DelDeleteSubnet(p) \/ DelDescribeRouteTables(p)
        \/ DelDeleteRouteTable(p) \/ DelDescribeInternetGateways(p)
        \/ DelDetachInternetGateway(p) \/ DelDeleteInternetGateway(p) \/ DelDeleteVpc(p)
        \/ DeleteGet(p) \/ DeleteUpdateStatus(p) \/ DeleteMetaGet(p) \/ DeleteMetaItem(p)
        \/ DeleteRaise(p)

SpecCreated == InitCreated /\ [][NextCreated]_vars

(***************************************************************************)
(* The same requests when the provider may list the main route table of    *)
(* the network without any association record: _is_main_route_table       *)
(* (vpc_manager.py lines 257-261) reads nothing but those records          *)
(***************************************************************************)

\* what route_table.associations_attribute of the main table may hold
MainAssociationListings == {{[main |-> TRUE, subnet |-> None]}, {}}

InitListed ==
    /\ zones \in {z \in ZoneConfigs : z # <<>>}
    /\ \E listing \in MainAssociationListings : CreatedStateListing(listing)
    /\ fr = [p \in Procs |-> IdleFrame]
    /\ started = 0
    /\ fn_in = <<>> /\ fn_op = "none" /\ fn_out = Returned(FALSE, NoneMsg)

SpecListed == InitListed /\ [][NextCreated]_vars

(***************************************************************************)
(* Delete requests for the network of that create running at the same     *)
(* time: each invocation of the delete handler has its own locals, and     *)
(* their calls to the provider and to the store interleave                 *)
(***************************************************************************)

Racers == {"r1", "r2"}

\* delete_vpc.py lines 22-46: a DELETE for the created network, whatever the
\* other invocation is doing
StartRacingDelete(p) ==
    /\ fr[p].pc \in {"idle", "done"} /\ started < MaxRequests
    /\ fr' = [fr EXCEPT ![p] = [IdleFrame EXCEPT !.kind = "delete", !.entry = "handler",
                                                 !.vpc_id = CreatedFrame.vpc_id,
                                                 !.pc = "d_get"]]
    /\ hist' = [hist EXCEPT !.deleting = @ \cup {CreatedFrame.vpc_id}]
    /\ started' = started + 1
    /\ UNCHANGED <<ec2vars, table, clock, fnvars>>

InitRace ==
    /\ zones \in {z \in ZoneConfigs : z # <<>>}
    /\ CreatedState
    /\ fr = [p \in Racers |-> IdleFrame]
    /\ started = 0
    /\ fn_in = <<>> /\ fn_op = "none" /\ fn_out = Returned(FALSE, NoneMsg)

NextRace ==
    \E p \in Racers :
        \/ StartRacingDelete(p)
        \/ DelDescribeSubnets(p) \/ DelDeleteSubnet(p) \/ DelDescribeRouteTables(p)
        \/ DelDeleteRouteTable(p) \/ DelDescribeInternetGateways(p)
        \/ DelDetachInternetGateway(p) \/ DelDeleteInternetGateway(p) \/ DelDeleteVpc(p)
        \/ DeleteGet(p) \/ DeleteUpdateStatus(p) \/ DeleteMetaGet(p) \/ DeleteMetaItem(p)
        \/ DeleteRaise(p)

SpecRace == InitRace /\ [][NextRace]_vars

(***************************************************************************)
(* common/dynamodb.py: the methods of VPCMetadataStore called one after    *)
(* the other on a table that holds some records                            *)
(***************************************************************************)

StoreIds == {1, 2, 3}
Stamps == {1, 2}
Limits == {0, 1, 2, 100}
Statuses == {"available", "deleting"}

\* the item save_vpc stores for a record created at this time
SavedItem(id, now) ==
    [NoDetails EXCEPT !.vpc_id = id, !.status = "available", !.created_at = now,
                      !.created_by = "vpc-api", !.has_details = TRUE]

\* the tables the store can hold: for each identifier no item, a saved
\* record, or the item an update_item on a missing key leaves (no created_at)
StoreTables ==
    {T \in SUBSET ({SavedItem(id, t) : id \in StoreIds, t \in Stamps}
                     \cup {[NoDetails EXCEPT !.vpc_id = id, !.status = "deleting"]
                              : id \in StoreIds}) :
        \A i, j \in T : i.vpc_id = j.vpc_id => i = j}

\* the item get_item found, as a list of at most one item
ItemsOf(S) == IF S = {} THEN <<>> ELSE <<CHOOSE i \in S : TRUE>>

StoreReturned(ok, items) == [raised |-> "None", ok |-> ok, items |-> items]
StoreRaised(type) == [raised |-> type, ok |-> FALSE, items |-> <<>>]
StoreArgs(id, status, limit) ==
    [vpc_id |-> id, status |-> status, limit |-> limit, before |-> table]

\* table.scan(Limit=limit): the first limit items in the order DynamoDB
\* reads them, which is any order
ScanPages(limit) ==
    LET n == IF limit < Cardinality(table) THEN limit ELSE Cardinality(table)
    IN  {page \in [1..n -> table] : \A i, j \in 1..n : page[i] = page[j] => i = j}

\* list.sort(key=created_at, reverse=True) is stable: an item goes behind
\* the items whose key is greater or equal
RECURSIVE InsertDescending(_, _)
InsertDescending(sorted, x) ==
    IF sorted = <<>> THEN <<x>>
    ELSE IF Head(sorted).created_at >= x.created_at
    THEN <<Head(sorted)>> \o InsertDescending(Tail(sorted), x)
    ELSE <<x>> \o sorted

\* list_vpcs returning the items as scanned
list_vpcs_unsorted(items) == items

\* dynamodb.py lines 54-58: the items of the scan, sorted; an item without
\* created_at sorts as '', below every time stamp
RECURSIVE list_vpcs(_)
list_vpcs(items) ==
    IF items = <<>> THEN <<>>
    ELSE InsertDescending(list_vpcs(SubSeq(items, 1, Len(items) - 1)), items[Len(items)])

StoreCallDone(op, args, out) ==
    /\ started < MaxRequests
    /\ started' = started + 1
    /\ fn_op' = op /\ fn_in' = args /\ fn_out' = out
    /\ UNCHANGED <<ec2vars, clock, fr, hist>>

\* dynamodb.py lines 18-33
CallSaveVpc ==
    \E id \in StoreIds, now \in Stamps :
        \/ /\ table' = PutItem(SavedItem(id, now))
           /\ StoreCallDone("save_vpc", StoreArgs(id, "available", 0),
                            StoreReturned(TRUE, <<SavedItem(id, now)>>))
        \/ /\ table' = table
           /\ StoreCallDone("save_vpc", StoreArgs(id, "available", 0),
                            StoreRaised("ClientError"))

\* dynamodb.py lines 35-49
CallGetVpc ==
    \E id \in StoreIds :
        /\ table' = table
        /\ \/ StoreCallDone("get_vpc", StoreArgs(id, "", 0),
                             StoreReturned(GetItem(id) # {}, ItemsOf(GetItem(id))))
           \/ StoreCallDone("get_vpc", StoreArgs(id, "", 0), StoreRaised("ClientError"))

\* dynamodb.py lines 51-62; botocore refuses a Limit below 1 before it sends
\* the request
CallListVpcs ==
    \E limit \in Limits :
        /\ table' = table
        /\ \/ /\ limit >= 1
              /\ \E page \in ScanPages(limit) :
                    StoreCallDone("list_vpcs", StoreArgs(None, "", limit),
                                  StoreReturned(TRUE, list_vpcs(page)))
           \/ /\ limit < 1
              /\ StoreCallDone("list_vpcs", StoreArgs(None, "", limit),
                               StoreRaised("ParamValidationError"))
           \/ StoreCallDone("list_vpcs", StoreArgs(None, "", limit),
                             StoreRaised("ClientError"))

\* dynamodb.py lines 64-80
CallDeleteVpc ==
    \E id \in StoreIds :
        \/ /\ table' = {i \in table : i.vpc_id # id}
           /\ StoreCallDone("delete_vpc", StoreArgs(id, "", 0),
                            StoreReturned(GetItem(id) # {}, <<>>))
        \/ /\ table' = table
           /\ StoreCallDone("delete_vpc", StoreArgs(id, "", 0), StoreRaised("ClientError"))

\* dynamodb.py lines 96-101: the except clause of update_vpc_status
update_vpc_status_except(code) ==
    IF code = "ConditionalCheckFailedException"
    THEN StoreReturned(FALSE, <<>>) ELSE StoreRaised("ClientError")

\* the errors DynamoDB may answer this update_item with: the request
\* carries no ConditionExpression, so never ConditionalCheckFailedException
UpdateItemErrors == {"InternalServerError"}

\* dynamodb.py lines 82-102
CallUpdateVpcStatus ==
    \E id \in StoreIds, status \in Statuses :
        \/ /\ table' = UpdateItem(id, status)
           /\ StoreCallDone("update_vpc_status", StoreArgs(id, status, 0),
                            StoreReturned(TRUE, <<>>))
        \/ /\ table' = table
           /\ \E code \in UpdateItemErrors :
                 StoreCallDone("update_vpc_status", StoreArgs(id, status, 0),
                               update_vpc_status_except(code))

InitStore ==
    /\ vpcs = {} /\ subnets = {} /\ igws = {} /\ rtbs = {}
    /\ zones = <<>>
    /\ next_id = 1
    /\ table \in StoreTables
    /\ clock = 1
    /\ fr = [p \in Procs |-> IdleFrame]
    /\ started = 0
    /\ hist = [created |-> {}, saved |-> {}, deleting |-> {}, deleted |-> {}]
    /\ fn_in = <<>> /\ fn_op = "none" /\ fn_out = Returned(FALSE, NoneMsg)

NextStore == CallSaveVpc \/ CallGetVpc \/ CallListVpcs \/ CallDeleteVpc \/ CallUpdateVpcStatus

SpecStore == InitStore /\ [][NextStore]_vars

(***************************************************************************)
(* The address functions on their own: every text of the bounded set is    *)
(* given to validate_cidr_block, to _validate_cidr and to                  *)
(* _calculate_subnet_cidr                                                  *)
(***************************************************************************)

MaxFields == 5      \* '.'-separated fields of the address part of a text

OctetFields == {"0", "10", "16", "255", "256", "-1", "x"}
ShortFields == {"0", "x", ""}
PrefixFields == {"15", "16", "20", "24", "28", "29", "0", "-1", "x", "", "16 "}

AddressParts ==
    [1..4 -> OctetFields]
        \cup UNION {[1..n -> ShortFields] : n \in (1..MaxFields) \ {4}}
PrefixParts == {<<t>> : t \in PrefixFields} \cup {<<"1", "6">>}

\* "a.b.c.d", "a.b.c.d/p" and "a.b.c.d/p/16"
CidrTexts ==
    {<<a>> : a \in AddressParts}
        \cup {<<a, q>> : a \in AddressParts, q \in PrefixParts}
        \cup {<<a, q, <<"16">>>> : a \in [1..4 -> {"0", "x"}], q \in {<<"16">>, <<"x">>}}

InitFn ==
    /\ vpcs = {} /\ subnets = {} /\ igws = {} /\ rtbs = {}
    /\ zones = <<>>
    /\ next_id = 1
    /\ table = {}
    /\ clock = 1
    /\ fr = [p \in Procs |-> IdleFrame]
    /\ started = 0
    /\ hist = [created |-> {}, saved |-> {}, deleting |-> {}, deleted |-> {}]
    /\ fn_in \in CidrTexts /\ fn_op = "none" /\ fn_out = Returned(FALSE, NoneMsg)

ApplyValidateCidrBlock ==
    /\ fn_op = "none"
    /\ fn_op' = "validate_cidr_block"
    /\ fn_out' = validate_cidr_block(fn_in)
    /\ UNCHANGED <<ec2vars, table, clock, fr, started, hist, fn_in>>

ApplyValidateCidr ==
    /\ fn_op = "none"
    /\ fn_op' = "_validate_cidr"
    /\ fn_out' = IF _validate_cidr(fn_in) THEN Returned(TRUE, NoneMsg) ELSE Raised("ValueError")
    /\ UNCHANGED <<ec2vars, table, clock, fr, started, hist, fn_in>>

\* octets[2] = ... raises IndexError on an address part of fewer than 3 fields
ApplyCalculateSubnetCidr ==
    /\ fn_op = "none"
    /\ fn_op' = "_calculate_subnet_cidr"
    /\ fn_out' = IF Len(fn_in[1]) >= 3
                 THEN [raised |-> "None",
                       first |-> _calculate_subnet_cidr(fn_in, 1),
                       second |-> _calculate_subnet_cidr(fn_in, 2)]
                 ELSE [raised |-> "IndexError", first |-> <<>>, second |-> <<>>]
    /\ UNCHANGED <<ec2vars, table, clock, fr, started, hist, fn_in>>

NextFn == ApplyValidateCidrBlock \/ ApplyValidateCidr \/ ApplyCalculateSubnetCidr

SpecFn == InitFn /\ [][NextFn]_vars

(***************************************************************************)
(* common/validation.py: validate_vpc_id and validate_create_vpc_request   *)
(* on their own.  An identifier is the sequence of its characters.         *)
(***************************************************************************)

MinIdHex == 8
MaxIdHex == 17
HexLower == {"a", "f", "0", "9"}

\* re.match(r'^vpc-[a-f0-9]{8,17}$', vpc_id): '$' also matches just before
\* a newline that ends the text
VpcIdRegexMatches(vpc_id) ==
    LET body == IF vpc_id # <<>> /\ vpc_id[Len(vpc_id)] = "\n"
                THEN SubSeq(vpc_id, 1, Len(vpc_id) - 1) ELSE vpc_id
    IN  /\ Len(body) >= 4 + MinIdHex /\ Len(body) <= 4 + MaxIdHex
        /\ SubSeq(body, 1, 4) = <<"v", "p", "c", "-">>
        /\ \A i \in 5..Len(body) : body[i] \in HexLower

\* validation.py lines 53-60
validate_vpc_id(vpc_id) ==
    IF vpc_id = <<>> THEN Returned(FALSE, "VPC ID is required")
    ELSE IF ~VpcIdRegexMatches(vpc_id)
    THEN Returned(FALSE, "Invalid VPC ID format (expected: vpc-xxxxxxxx)")
    ELSE Returned(TRUE, NoneMsg)

\* n times the character c
Fill(n, c) == [i \in 1..n |-> c]

IdPrefixes == {<<"v", "p", "c", "-">>, <<"V", "P", "C", "-">>, <<"v", "p", "c">>, <<>>}
IdTails == {<<>>, <<"\n">>, <<" ">>, <<"\n", "\n">>, <<"f">>, <<"g">>, <<"A">>,
            <<"A", "\n">>}
IdLengths == 0..(MaxIdHex + 1)

\* the identifier texts: a prefix, some hexadecimal digits, an ending
VpcIdTexts ==
    {pre \o Fill(n, c) \o tail :
        pre \in IdPrefixes, n \in IdLengths, c \in {"a", "0"}, tail \in IdTails}

RequestNames == {<<>>, <<"d">>, <<"d", "\n">>, <<"-", "d">>, <<"d", " ">>, <<" ", "d">>,
                 <<"d", "_", "1", "-">>, <<"d", "!">>}
RequestCidrs ==
    { Cidr16, EmptyText,
      << <<"10", "0", "0", "0">>, <<"16 ">> >>,
      << <<"10", "0", "0", "0">>, <<"20">> >>,
      << <<"10", "0", "0", "0">>, <<"29">> >>,
      << <<"256", "0", "0", "0">>, <<"16">> >>,
      << <<"10", "0", "0", "0">> >>,
      << <<"x">> >> }

\* the request bodies: None, and the dicts with or without a name and with
\* or without a range
RequestBodies ==
    {NoneBody, [description |-> <<"d">>]}
        \cup {[name |-> n] : n \in RequestNames}
        \cup {[cidr_block |-> c] : c \in RequestCidrs}
        \cup {[name |-> n, cidr_block |-> c] : n \in RequestNames, c \in RequestCidrs}

InitReq ==
    /\ vpcs = {} /\ subnets = {} /\ igws = {} /\ rtbs = {}
    /\ zones = <<>>
    /\ next_id = 1
    /\ table = {}
    /\ clock = 1
    /\ fr = [p \in Procs |-> IdleFrame]
    /\ started = 0
    /\ hist = [created |-> {}, saved |-> {}, deleting |-> {}, deleted |-> {}]
    /\ \/ fn_in \in VpcIdTexts /\ fn_op = "vpc_id"
       \/ fn_in \in RequestBodies /\ fn_op = "body"
    /\ fn_out = Returned(FALSE, NoneMsg)

ApplyValidateVpcId ==
    /\ fn_op = "vpc_id"
    /\ fn_op' = "validate_vpc_id"
    /\ fn_out' = validate_vpc_id(fn_in)
    /\ UNCHANGED <<ec2vars, table, clock, fr, started, hist, fn_in>>

ApplyValidateCreateVpcRequest ==
    /\ fn_op = "body"
    /\ fn_op' = "validate_create_vpc_request"
    /\ fn_out' = validate_create_vpc_request(fn_in)
    /\ UNCHANGED <<ec2vars, table, clock, fr, started, hist, fn_in>>

NextReq == ApplyValidateVpcId \/ ApplyValidateCreateVpcRequest

SpecReq == InitReq /\ [][NextReq]_vars

(***************************************************************************)
(* Properties                                                              *)
(***************************************************************************)

\* a top-level range as the specification accepts it: four integer octets in
\* 0..255 and an integer prefix in 16..28
Accepted(cidr) == WellFormed(cidr) /\ PartInt(cidr[2]) \in 16..28

\* C7: for every well-formed top-level range with prefix in 16..28, the ranges
\* derived with index 1 and index 2 are two distinct, non-overlapping /24
\* ranges that keep the parent's first two octets, the third octet being the
\* index and the prefix 24.
C7_DerivedSubnetsDistinctSlash24 ==
    (fn_op = "_calculate_subnet_cidr" /\ Accepted(fn_in)) =>
        /\ fn_out.raised = "None"
        /\ fn_out.first # fn_out.second
        /\ WellFormed(fn_out.first) /\ WellFormed(fn_out.second)
        /\ PartInt(fn_out.first[2]) = 24 /\ PartInt(fn_out.second[2]) = 24
        /\ ~Overlap(fn_out.first, fn_out.second)
        /\ \A i \in 1..2 : /\ fn_out.first[1][i] = fn_in[1][i]
                           /\ fn_out.second[1][i] = fn_in[1][i]
        /\ IntVal[fn_out.first[1][3]] = 1 /\ IntVal[fn_out.second[1][3]] = 2

\* the subnets of "10.0.16.0/20" have been derived
C7_Witness ==
    /\ fn_op = "_calculate_subnet_cidr"
    /\ fn_in = << <<"10", "0", "16", "0">>, <<"20">> >>
    /\ fn_out.first = << <<"10", "0", "1", "0">>, <<"24">> >>
    /\ fn_out.second = << <<"10", "0", "2", "0">>, <<"24">> >>

\* C8: validate_cidr_block returns (True, None) exactly when the text has four
\* integer octets in 0..255 and an integer prefix in 16..28; for every other
\* text it returns (False, message) with a message, and it never raises.
C8_ValidateCidrBlockExact ==
    fn_op = "validate_cidr_block" =>
        /\ fn_out.raised = "None"
        /\ fn_out.ok <=> Accepted(fn_in)
        /\ fn_out.ok => fn_out.error = NoneMsg
        /\ ~fn_out.ok => fn_out.error # NoneMsg

\* "10.0.0.0/29" has been rejected with a message
C8_Witness ==
    /\ fn_op = "validate_cidr_block"
    /\ fn_in = << <<"10", "0", "0", "0">>, <<"29">> >>
    /\ ~fn_out.ok /\ fn_out.error = "VPC CIDR prefix must be between /16 and /28"

CreateOps == {"create_vpc", "modify_vpc_attribute", "describe_availability_zones",
              "create_subnet", "modify_subnet_attribute", "create_internet_gateway",
              "attach_internet_gateway", "create_route_table", "create_route",
              "associate_route_table"}
DeleteOps == {"describe_subnets", "delete_subnet", "describe_route_tables",
              "delete_route_table", "describe_internet_gateways",
              "detach_internet_gateway", "delete_internet_gateway", "delete_vpc"}

\* the calls of a log that are of these operations, in order
CallsOf(calls, ops) == SelectSeq(calls, LAMBDA c : c.op \in ops)

\* a create request that has returned to its caller
CreateDone(f) == f.kind = "create" /\ f.pc = "done"
\* ... with an error of a provider call made after the network was created
FailedAfterNetwork(f) ==
    CreateDone(f) /\ f.vpc_id # None /\ f.exc.type = "ClientError"
\* the error the caller received is the one of the last creation call issued
OriginalErrorDelivered(f) ==
    /\ f.out.kind = IF f.entry = "manager" THEN "raised" ELSE "response"
    /\ f.out.exc.type = "ClientError"
    /\ f.out.exc.op \in CreateOps
    /\ LET made == CallsOf(f.calls, CreateOps) IN f.out.exc.op = made[Len(made)].op

Exists(resources, id) == \E r \in resources : r.id = id

\* C1: when the provider rejects the route-table creation call of a create and
\* no call of the rollback, the rollback has deleted the network container,
\* both subnetworks and the gateway, and the caller receives the error of the
\* route-table creation call.
C1_RouteTableFailureRolledBack ==
    \A p \in Procs :
        (/\ FailedAfterNetwork(fr[p])
         /\ fr[p].exc.op = "create_route_table"
         /\ fr[p].rb_exc = NoExc) =>
            /\ fr[p].rb_done
            /\ ~Exists(vpcs, fr[p].vpc_id)
            /\ ~Exists(subnets, fr[p].public_subnet.subnet_id)
            /\ ~Exists(subnets, fr[p].private_subnet.subnet_id)
            /\ ~Exists(igws, fr[p].igw_id)
            /\ \A id \in {fr[p].public_subnet.subnet_id, fr[p].private_subnet.subnet_id} :
                  \E i \in 1..Len(fr[p].calls) :
                      fr[p].calls[i] = [op |-> "delete_subnet", id |-> id, cidr |-> <<>>]
            /\ OriginalErrorDelivered(fr[p])
            /\ fr[p].out.exc.op = "create_route_table"

\* a create called directly was rejected at route-table creation, its
\* rollback ran to the end and the caller holds the error
C1_Witness ==
    \E p \in Procs :
        /\ FailedAfterNetwork(fr[p]) /\ fr[p].entry = "manager"
        /\ fr[p].exc.op = "create_route_table" /\ fr[p].rb_done
        /\ fr[p].public_subnet.subnet_id # None /\ fr[p].private_subnet.subnet_id # None
        /\ fr[p].igw_id # None
        /\ fr[p].out.kind = "raised"

\* C2: for every create that fails at a provider call after the network
\* container was created, the caller receives the error of that creation call,
\* whether the rollback delete returned or itself raised: a rollback error is
\* never raised to the caller and never replaces the original error.
C2_OriginalErrorReachesCaller ==
    \A p \in Procs :
        FailedAfterNetwork(fr[p]) =>
            /\ OriginalErrorDelivered(fr[p])
            /\ fr[p].out.exc = fr[p].exc
            /\ fr[p].rb_done \/ fr[p].rb_exc.op \in DeleteOps

\* the rollback of a failed create itself raised, and the caller holds the
\* creation error
C2_Witness ==
    \E p \in Procs :
        /\ FailedAfterNetwork(fr[p])
        /\ fr[p].rb_exc.type = "ClientError" /\ fr[p].rb_exc.op = "delete_subnet"
        /\ fr[p].out.exc.op = "create_route"

\* the resources a create call made: what its locals name, and whatever the
\* provider holds for its network
LeftBehind(f) ==
    \/ Exists(vpcs, f.vpc_id)
    \/ \E x \in subnets : x.vpc = f.vpc_id \/ x.id = f.subnet_id
    \/ f.igw_id # None /\ Exists(igws, f.igw_id)
    \/ \E t \in rtbs : t.vpc = f.vpc_id

\* C3: for a failure at any provider call of create after the network
\* container exists, if the rollback delete completes without error then no
\* resource created by that create call still exists at the provider.
C3_RollbackLeavesNothing ==
    \A p \in Procs :
        (FailedAfterNetwork(fr[p]) /\ fr[p].rb_done) => ~LeftBehind(fr[p])

\* the number of times delete_vpc was entered for this identifier: each entry
\* starts with the listing of the subnets
DeleteInvocations(f, id) ==
    Len(SelectSeq(f.calls, LAMBDA c : c.op = "describe_subnets" /\ c.id = id))

\* C4: the rollback delete is invoked exactly when create fails after the
\* network container was allocated: such a failure is followed by exactly one
\* delete of that identifier before the error reaches the caller, and a create
\* that fails before the network container exists invokes no delete.
C4_RollbackExactlyWhenNetworkExists ==
    \A p \in Procs :
        (CreateDone(fr[p]) /\ fr[p].exc # NoExc) =>
            /\ fr[p].vpc_id # None => DeleteInvocations(fr[p], fr[p].vpc_id) = 1
            /\ fr[p].vpc_id = None => CallsOf(fr[p].calls, DeleteOps) = <<>>

\* C5: for every address range given to create whose prefix is below 16 or
\* above 28, or whose text is not four integers in 0..255 and /<int>, create
\* fails at validation and makes no provider call.
C5_BadRangeMakesNoCall ==
    \A p \in Procs :
        (CreateDone(fr[p]) /\ fr[p].cidr_block # <<>> /\ ~Accepted(fr[p].cidr_block)) =>
            /\ fr[p].exc.type = "ValueError"
            /\ fr[p].calls = <<>>

\* C6: every subnetwork range that create asks the provider to create is a
\* sub-range of the network container's range, for every accepted range.
C6_SubnetsInsideNetwork ==
    \A p \in Procs :
        (fr[p].kind = "create" /\ Accepted(fr[p].cidr_block)) =>
            \A i \in 1..Len(fr[p].calls) :
                fr[p].calls[i].op = "create_subnet" =>
                    /\ WellFormed(fr[p].calls[i].cidr)
                    /\ SubRange(fr[p].calls[i].cidr, fr[p].cidr_block)

\* a create request that returned a record to its caller
CreateSucceeded(f) ==
    /\ CreateDone(f)
    /\ \/ f.entry = "manager" /\ f.out.kind = "returned"
       \/ f.entry = "handler" /\ f.out.status = 201

\* the first zone the provider reports as available
FirstAvailableZone(az) ==
    \E k \in 1..Len(zones) :
        /\ zones[k].name = az /\ zones[k].state = "available"
        /\ \A j \in 1..(k - 1) : zones[j].state # "available"

\* C9: every record returned by a successful create has status 'available',
\* creator 'vpc-api', exactly two subnets - first the public one with the
\* index-1 range, then the private one with the index-2 range, both in the
\* first zone the provider reports as available -, the identifier of the
\* gateway created in this call, and a route-table map whose only key is
\* 'public'.
C9_ReturnedRecord ==
    \A p \in Procs :
        CreateSucceeded(fr[p]) =>
            LET d == fr[p].out.data
                octets == d.cidr_block[1]
            IN  /\ d.status = "available" /\ d.created_by = "vpc-api"
                /\ Len(d.subnets) = 2
                /\ d.subnets[1].type = "public" /\ d.subnets[2].type = "private"
                /\ d.subnets[1].cidr_block =
                       << <<octets[1], octets[2], "1", octets[4]>>, <<"24">> >>
                /\ d.subnets[2].cidr_block =
                       << <<octets[1], octets[2], "2", octets[4]>>, <<"24">> >>
                /\ d.subnets[1].availability_zone = d.subnets[2].availability_zone
                /\ FirstAvailableZone(d.subnets[1].availability_zone)
                /\ \A i \in 1..2 :
                      \E x \in subnets :
                          /\ x.id = d.subnets[i].subnet_id /\ x.vpc = d.vpc_id
                          /\ x.cidr = d.subnets[i].cidr_block
                          /\ x.az = d.subnets[i].availability_zone
                /\ \E g \in igws : g.id = d.internet_gateway_id /\ g.vpc = d.vpc_id
                /\ d.internet_gateway_id > d.vpc_id
                /\ DOMAIN d.route_tables = {"public"}
                /\ \E t \in rtbs : t.id = d.route_tables["public"] /\ t.vpc = d.vpc_id

\* a create through the handler returned its record where the first zone
\* reported is not available
C9_Witness ==
    \E p \in Procs :
        /\ CreateSucceeded(fr[p]) /\ fr[p].entry = "handler"
        /\ zones[1].state # "available"
        /\ fr[p].out.data.subnets[1].availability_zone = "us-east-2b"

\* a record with exactly one public and one private subnet and status available
IsAvailableRecord(d) ==
    /\ {"subnets", "status"} \subseteq DOMAIN d
    /\ Len(d.subnets) = 2
    /\ Cardinality({i \in 1..2 : d.subnets[i].type = "public"}) = 1
    /\ Cardinality({i \in 1..2 : d.subnets[i].type = "private"}) = 1
    /\ d.status = "available"

StoreOps == {"get_item", "put_item", "update_item", "delete_item", "scan"}

\* a delete request that has been answered
DeleteDone(f) == f.kind = "delete" /\ f.pc = "done"

\* ... with the deletion record, status 200 and no error
DeletedOutcome(f) ==
    /\ f.out.kind = "response" /\ f.out.status = 200 /\ f.out.exc = NoExc
    /\ f.out.deletion.vpc_id = f.vpc_id /\ f.out.deletion.status = "deleted"

\* C11: when the provider answers the delete of the network container with
\* InvalidVpcID.NotFound, the delete handler holds a deletion record with
\* status 'deleted' and no error, and answers with it unless a call of the
\* metadata store fails afterwards.
C11_NotFoundYieldsDeleted ==
    \A p \in Procs :
        (fr[p].kind = "delete" /\ fr[p].answer = "InvalidVpcID.NotFound") =>
            /\ fr[p].deletion.vpc_id = fr[p].vpc_id
            /\ fr[p].deletion.status = "deleted"
            /\ fr[p].exc = NoExc
            /\ fr[p].pc \in {"d_delete_meta", "d_delete_item", "done"}
            /\ fr[p].pc = "done" =>
                  \/ DeletedOutcome(fr[p])
                  \/ fr[p].out.exc.op \in StoreOps

\* a delete of a stored identifier whose network the provider no longer
\* has was answered 200 with the deletion record
C11_Witness ==
    \E p \in Procs :
        /\ DeleteDone(fr[p]) /\ fr[p].answer = "InvalidVpcID.NotFound"
        /\ DeletedOutcome(fr[p]) /\ fr[p].out.deletion.note
        /\ VpcOf(fr[p].vpc_id) = {} /\ GetItem(fr[p].vpc_id) = {}

\* C12: a delete of an identifier that an earlier delete request already
\* removed is answered with a deleted outcome, not an error (no call of the
\* metadata store failing).
C12_SecondDeleteDeleted ==
    \A p \in Procs :
        (/\ DeleteDone(fr[p]) /\ fr[p].vpc_id \in hist.deleted
         /\ fr[p].out.exc.op \notin StoreOps) => DeletedOutcome(fr[p])

\* C13: every record of the metadata store is for an identifier that a create
\* returned with its full record; the store changes during a create request
\* only at the save that follows the return of create_vpc, so a create that
\* fails at validation, at a provider call or during rollback writes nothing.
C13_StoreOnlyAfterSuccessfulCreate ==
    /\ [](\A i \in table : i.vpc_id \in hist.created)
    /\ [][\A p \in Procs :
            (fr[p].kind = "create" /\ fr[p].pc # "done" /\ table' # table) =>
                /\ fr[p].pc = "save_vpc" /\ fr[p].exc = NoExc /\ fr[p].rb_exc = NoExc
                /\ fr[p].details.has_details /\ fr[p].vpc_id \in hist.created
                /\ Len(CallsOf(fr[p].calls, CreateOps)) = 12
                /\ table' = PutItem(fr[p].details)]_vars

\* a create through the handler failed after its network was created, its
\* rollback failed too, and the store holds only the record of an earlier
\* create
C13_Witness ==
    \E p \in Procs :
        /\ FailedAfterNetwork(fr[p]) /\ fr[p].entry = "handler"
        /\ fr[p].rb_exc # NoExc
        /\ table # {} /\ GetItem(fr[p].vpc_id) = {}

\* C14: update_vpc_status on an identifier the store holds no record for
\* returns False and leaves the store as it was; on a stored identifier it
\* returns True and changes only the status of that record.
C14_UpdateStatusOfAbsentReturnsFalse ==
    (fn_op = "update_vpc_status" /\ fn_out.raised = "None") =>
        IF \A i \in fn_in.before : i.vpc_id # fn_in.vpc_id
        THEN ~fn_out.ok /\ table = fn_in.before
        ELSE /\ fn_out.ok
             /\ table = {IF i.vpc_id = fn_in.vpc_id THEN [i EXCEPT !.status = fn_in.status]
                         ELSE i : i \in fn_in.before}

\* C19: list_vpcs(limit) returns at most limit records of the store, each
\* once, every record's created_at greater than or equal to the next one's,
\* and leaves the store as it was.
C19_ListAtMostLimitDescending ==
    (fn_op = "list_vpcs" /\ fn_out.raised = "None") =>
        /\ Len(fn_out.items) <= fn_in.limit
        /\ \A i \in 1..(Len(fn_out.items) - 1) :
              fn_out.items[i].created_at >= fn_out.items[i + 1].created_at
        /\ \A i \in 1..Len(fn_out.items) : fn_out.items[i] \in table
        /\ \A i, j \in 1..Len(fn_out.items) : fn_out.items[i] = fn_out.items[j] => i = j
        /\ table = fn_in.before

\* a list with limit 2 on a store of three records returned two of them,
\* the later one first
C19_Witness ==
    /\ fn_op = "list_vpcs" /\ fn_in.limit = 2 /\ Cardinality(table) = 3
    /\ Len(fn_out.items) = 2
    /\ fn_out.items[1].created_at > fn_out.items[2].created_at

\* the provider reports no zone in state 'available'
NoZoneAvailable == \A k \in 1..Len(zones) : zones[k].state # "available"

DescribeDone(f) == f.kind = "get" /\ f.entry = "manager" /\ f.pc = "done"

\* C16: describe_vpc issues exactly one describe_vpcs call and changes neither
\* the provider nor the store; it returns None when the provider answers
\* InvalidVpcID.NotFound or an empty list, the description when the provider
\* has the network, and raises every other provider error to the caller.
C16_DescribeReadsOnce ==
    /\ [](\A p \in Procs :
            DescribeDone(fr[p]) =>
                /\ fr[p].calls = <<[op |-> "describe_vpcs", id |-> fr[p].vpc_id,
                                    cidr |-> <<>>]>>
                /\ fr[p].answer = "InvalidVpcID.NotFound" =>
                      fr[p].out.kind = "returned_none" /\ fr[p].out.exc = NoExc
                /\ (fr[p].answer = "" /\ VpcOf(fr[p].vpc_id) = {}) =>
                      fr[p].out.kind = "returned_none" /\ fr[p].out.exc = NoExc
                /\ (fr[p].answer = "" /\ VpcOf(fr[p].vpc_id) # {}) =>
                      fr[p].out.kind = "returned" /\ fr[p].out.data.VpcId = fr[p].vpc_id
                /\ fr[p].answer \notin {"", "InvalidVpcID.NotFound"} =>
                      /\ fr[p].out.kind = "raised"
                      /\ fr[p].out.exc = ClientError(fr[p].answer, "describe_vpcs"))
    /\ [][\A p \in Procs :
            (DescribeDone(fr'[p]) /\ started' # started) =>
                /\ <<vpcs, subnets, igws, rtbs, zones, next_id>>' =
                       <<vpcs, subnets, igws, rtbs, zones, next_id>>
                /\ table' = table]_vars

\* describe_vpc returned None for an identifier the provider answered
\* InvalidVpcID.NotFound for, while another network exists
C16_Witness ==
    \E p \in Procs :
        /\ DescribeDone(fr[p]) /\ fr[p].answer = "InvalidVpcID.NotFound"
        /\ fr[p].out.kind = "returned_none" /\ vpcs # {}

\* C17: validate_create_vpc_request returns (False, message, None) for a
\* None body, for a name validate_vpc_name rejects and for a range
\* validate_cidr_block rejects, the name's message when both are rejected;
\* otherwise it returns (True, None, data) with data holding the stripped
\* name and range under 'name' and 'cidr_block', the range being
\* '10.0.0.0/16' when the body has no cidr_block.
C17_RequestValidation ==
    fn_op = "validate_create_vpc_request" =>
        LET name == Get(fn_in, "name", <<>>)
            cidr == Get(fn_in, "cidr_block", Cidr16)
        IN  /\ ~fn_out.ok => fn_out.error # NoneMsg /\ fn_out.data = NoData
            /\ fn_in = NoneBody =>
                  ~fn_out.ok /\ fn_out.error = "Request body is required"
            /\ (fn_in # NoneBody /\ ~validate_vpc_name(name).ok) =>
                  ~fn_out.ok /\ fn_out.error = validate_vpc_name(name).error
            /\ (fn_in # NoneBody /\ validate_vpc_name(name).ok
                    /\ ~validate_cidr_block(cidr).ok) =>
                  ~fn_out.ok /\ fn_out.error = validate_cidr_block(cidr).error
            /\ (fn_in # NoneBody /\ validate_vpc_name(name).ok
                    /\ validate_cidr_block(cidr).ok) =>
                  /\ fn_out.ok /\ fn_out.error = NoneMsg
                  /\ DOMAIN fn_out.data = {"name", "cidr_block"}
                  /\ fn_out.data.name = Strip(name)
                  /\ fn_out.data.cidr_block = StripCidr(cidr)
                  /\ Accepted(fn_out.data.cidr_block)
                  /\ "cidr_block" \notin DOMAIN fn_in => fn_out.data.cidr_block = Cidr16

\* a body whose name and range are both rejected was answered with the
\* message for the name
C17_Witness ==
    /\ fn_op = "validate_create_vpc_request"
    /\ fn_in = [name |-> <<"-", "d">>, cidr_block |-> << <<"x">> >>]
    /\ ~fn_out.ok
    /\ fn_out.error = "VPC name must start with an alphanumeric character"

\* 'vpc-' followed by 8 to 17 characters from 0-9 and a-f
IsVpcId(text) ==
    /\ Len(text) >= 4 + 8 /\ Len(text) <= 4 + 17
    /\ SubSeq(text, 1, 4) = <<"v", "p", "c", "-">>
    /\ \A i \in 5..Len(text) : text[i] \in {"0", "9", "a", "f"}

\* C18: validate_vpc_id accepts exactly the strings made of 'vpc-' followed
\* by 8 to 17 characters from 0-9 and a-f, and rejects every other string
\* with a message.
C18_VpcIdExact ==
    fn_op = "validate_vpc_id" =>
        /\ fn_out.ok <=> IsVpcId(fn_in)
        /\ fn_out.ok => fn_out.error = NoneMsg
        /\ ~fn_out.ok => fn_out.error # NoneMsg

\* the provider calls of a create that succeeds, in the order of the code
CreateSequence ==
    <<"create_vpc", "modify_vpc_attribute", "modify_vpc_attribute",
      "describe_availability_zones", "create_subnet", "modify_subnet_attribute",
      "create_subnet", "create_internet_gateway", "attach_internet_gateway",
      "create_route_table", "create_route", "associate_route_table">>

OpsOf(calls) == [i \in 1..Len(calls) |-> calls[i].op]
IsPrefix(s, t) == Len(s) <= Len(t) /\ \A i \in 1..Len(s) : s[i] = t[i]

\* C20: the creation calls a create has issued are always the first calls of
\* the sequence create network, two attribute calls, zone discovery, public
\* subnet, auto-assign, private subnet, gateway, attach, route table, default
\* route, association, the two subnets asked with different ranges; each
\* step issues one call, and only while no earlier call has failed.
C20_CreateCallsInOrder ==
    /\ [](\A p \in Procs :
            fr[p].kind = "create" =>
                LET made == CallsOf(fr[p].calls, CreateOps) IN
                /\ IsPrefix(OpsOf(made), CreateSequence)
                /\ Len(made) >= 7 => made[5].cidr # made[7].cidr)
    /\ [][\A p \in Procs :
            (/\ fr[p].kind = "create" /\ fr[p].pc # "done" /\ fr'[p].kind = "create"
             /\ CallsOf(fr'[p].calls, CreateOps) # CallsOf(fr[p].calls, CreateOps)) =>
                /\ fr[p].exc = NoExc
                /\ Len(fr'[p].calls) = Len(fr[p].calls) + 1
                /\ SubSeq(fr'[p].calls, 1, Len(fr[p].calls)) = fr[p].calls]_vars

\* a create issued its twelve calls and returned
C20_Witness ==
    \E p \in Procs :
        /\ CreateSucceeded(fr[p])
        /\ OpsOf(fr[p].calls) = CreateSequence

\* the position of a teardown call in lines 103-117
TeardownRank(op) ==
    CASE op = "describe_subnets" -> 1
      [] op = "delete_subnet" -> 2
      [] op = "describe_route_tables" -> 3
      [] op = "delete_route_table" -> 4
      [] op = "describe_internet_gateways" -> 5
      [] op \in {"detach_internet_gateway", "delete_internet_gateway"} -> 6
      [] op = "delete_vpc" -> 7

\* the teardown calls of a frame, in the order they were issued
TeardownCalls(f) == CallsOf(f.calls, DeleteOps)

\* this step issues this frame's call to delete the network container
IssuesDeleteVpc(p) ==
    /\ fr[p].pc = "del_delete_vpc"
    /\ Len(fr'[p].calls) = Len(fr[p].calls) + 1
    /\ fr'[p].calls[Len(fr'[p].calls)].op = "delete_vpc"

\* C21: in every execution of delete_vpc (by the delete handler or by the
\* rollback of a create) the calls are issued in the order: subnet deletes,
\* then route-table deletes, then for each attached gateway its detach
\* directly followed by its delete, then the delete of the network container;
\* and the delete of the network container is issued only when no earlier
\* call of that execution was answered with an error, every listed subnet,
\* non-main route table and attached gateway having been deleted.
C21_TeardownOrder ==
    /\ [](\A p \in Procs :
            LET d == TeardownCalls(fr[p]) IN
            /\ \A i \in 1..(Len(d) - 1) : TeardownRank(d[i].op) <= TeardownRank(d[i + 1].op)
            /\ \A i \in 1..Len(d) :
                  /\ d[i].op = "delete_internet_gateway" =>
                        i > 1 /\ d[i - 1].op = "detach_internet_gateway" /\ d[i - 1].id = d[i].id
                  /\ (d[i].op = "detach_internet_gateway" /\ i < Len(d)) =>
                        d[i + 1].op = "delete_internet_gateway"
                  /\ d[i].op = "delete_vpc" => i = Len(d))
    /\ [][\A p \in Procs :
            IssuesDeleteVpc(p) =>
                /\ fr[p].answer = ""
                /\ \A s \in subnets : s.vpc # fr[p].vpc_id
                /\ \A t \in rtbs : t.vpc = fr[p].vpc_id => _is_main_route_table(t)
                /\ \A g \in igws : g.vpc # fr[p].vpc_id
                /\ LET d == TeardownCalls(fr[p]) IN
                      {"describe_subnets", "describe_route_tables",
                       "describe_internet_gateways"} \subseteq {d[i].op : i \in 1..Len(d)}]_vars

\* a delete request went through every stage of the teardown: two subnet
\* deletes, a route-table delete, a gateway detached and deleted, and the
\* network container deleted
C21_Witness ==
    \E p \in Procs :
        LET d == TeardownCalls(fr[p]) IN
        /\ fr[p].kind = "delete"
        /\ Len(d) = 9
        /\ d[Len(d)].op = "delete_vpc"
        /\ fr[p].answer = ""

\* C22: delete_vpc never issues a delete call for the main route table of the
\* network and, once it is past the route-table loop, has deleted every other
\* route table of the network, also when the provider lists the main table
\* without any association record.
C22_MainRouteTableSkipped ==
    \A p \in Procs :
        /\ \A i \in 1..Len(fr[p].calls) :
              fr[p].calls[i].op = "delete_route_table" =>
                  ~\E t \in rtbs : t.id = fr[p].calls[i].id /\ t.main
        /\ fr[p].pc \in {"del_describe_internet_gateways", "del_detach_internet_gateway",
                         "del_delete_internet_gateway", "del_delete_vpc"} =>
              \A t \in rtbs : t.vpc = fr[p].vpc_id => t.main

\* a delete request one of whose provider calls was answered with an error
\* other than "network not found"
TeardownFailed(f) ==
    f.kind = "delete" /\ f.answer \notin {"", "InvalidVpcID.NotFound"}

\* C23: when a provider call of a delete request is answered with an error
\* other than InvalidVpcID.NotFound, that call is the last teardown call of
\* the request, the failed call and every later step of the request leave the
\* provider and the metadata store as they are (the network container is not
\* deleted, the record is not removed), and the handler answers 400 or 500
\* with that very error.
C23_FailureStopsTeardown ==
    /\ [](\A p \in Procs :
            TeardownFailed(fr[p]) =>
                LET last == fr[p].calls[Len(fr[p].calls)] IN
                /\ fr[p].pc \in {"d_raise", "done"}
                /\ last.op \in DeleteOps
                /\ fr[p].exc = ClientError(fr[p].answer, last.op)
                /\ GetItem(fr[p].vpc_id) # {}
                /\ fr[p].pc = "done" =>
                      /\ fr[p].out.kind = "response"
                      /\ fr[p].out.status \in {400, 500}
                      /\ fr[p].out.exc = fr[p].exc
                      /\ fr[p].out.deletion = NoDeletion)
    /\ [][\A p \in Procs :
            (fr'[p].kind = "delete" /\ fr[p].kind = "delete" /\ TeardownFailed(fr'[p])) =>
                /\ ec2vars' = ec2vars
                /\ table' = table
                /\ TeardownFailed(fr[p]) => fr'[p].calls = fr[p].calls]_vars

\* the provider answered the delete of a subnet with DependencyViolation and
\* the caller of the delete request received 400
C23_Witness ==
    \E p \in Procs :
        /\ DeleteDone(fr[p])
        /\ fr[p].exc = ClientError("DependencyViolation", "delete_subnet")
        /\ fr[p].out.status = 400
        /\ \E v \in vpcs : v.id = fr[p].vpc_id

\* delete_vpc returned its deletion record (vpc_manager.py lines 120-124) to
\* the delete handler or to the rollback of a create
DeleteReturned(f) ==
    \/ f.kind = "delete" /\ f.deletion.status = "deleted" /\ ~f.deletion.note
    \/ f.kind = "create" /\ f.rb_done

\* C24: once delete_vpc has returned its deletion record, and while no other
\* request has run, the provider holds neither the network container, nor a
\* subnet of it, nor a route table of it, nor a gateway attached to it, nor
\* any gateway the teardown detached from it.
C24_DeletedLeavesNothing ==
    \A p \in Procs :
        DeleteReturned(fr[p]) =>
            /\ VpcOf(fr[p].vpc_id) = {}
            /\ \A s \in subnets : s.vpc # fr[p].vpc_id
            /\ \A t \in rtbs : t.vpc # fr[p].vpc_id
            /\ \A g \in igws : g.vpc # fr[p].vpc_id
            /\ \A i \in 1..Len(fr[p].calls) :
                  fr[p].calls[i].op = "detach_internet_gateway" =>
                      ~Exists(igws, fr[p].calls[i].id)

\* a delete request tore down a network with two subnets, a route table and
\* an attached gateway and was answered with the deletion record
C24_Witness ==
    \E p \in Procs :
        /\ DeleteDone(fr[p]) /\ DeletedOutcome(fr[p]) /\ DeleteReturned(fr[p])
        /\ Len(CallsOf(fr[p].calls, {"delete_subnet"})) = 2
        /\ Len(CallsOf(fr[p].calls, {"delete_route_table"})) = 1
        /\ Len(CallsOf(fr[p].calls, {"detach_internet_gateway"})) = 1

\* a create that failed at zone discovery: describe_availability_zones was
\* answered with an error, or it reported no available zone
FailedAtZoneDiscovery(f) ==
    /\ CreateDone(f)
    /\ \/ f.exc.type = "ClientError" /\ f.exc.op = "describe_availability_zones"
       \/ NoZoneAvailable /\ f.exc.type = "ParamValidationError"

\* C25: a create that fails at zone discovery is not followed by a rollback
\* delete, and no resource that create call made exists at the provider when
\* the error has reached the caller.
C25_ZoneFailureLeavesNothing ==
    \A p \in Procs :
        FailedAtZoneDiscovery(fr[p]) =>
            /\ CallsOf(fr[p].calls, DeleteOps) = <<>>
            /\ ~LeftBehind(fr[p])

\* VPCManager.create_vpc has returned its record (to the direct caller or to
\* the create handler)
CreateReturned(f) == f.kind = "create" /\ f.details.has_details

\* the identifiers of the subnets of this type in a returned record
SubnetIdsOf(d, type) ==
    {d.subnets[i].subnet_id : i \in {k \in 1..Len(d.subnets) : d.subnets[k].type = type}}

\* C26: after every create that returned its record, the route table named
\* in the record holds exactly one added route, 0.0.0.0/0 via the gateway
\* named in the record, and exactly one association, with the public subnet;
\* no route table is associated with the private subnet; and of the subnets
\* of the network only the public one auto-assigns public addresses.
C26_PublicRoutingOnly ==
    \A p \in Procs :
        CreateReturned(fr[p]) =>
            LET d == fr[p].details IN
            \E pub \in SubnetIdsOf(d, "public") :
                \E priv \in SubnetIdsOf(d, "private") :
                    /\ pub # priv
                    /\ \E t \in rtbs :
                          /\ t.id = d.route_tables["public"] /\ t.vpc = d.vpc_id
                          /\ t.routes = {[dest |-> DefaultRoute,
                                          gateway |-> d.internet_gateway_id]}
                          /\ t.associations = {[main |-> FALSE, subnet |-> pub]}
                    /\ \E g \in igws : g.id = d.internet_gateway_id /\ g.vpc = d.vpc_id
                    /\ \A t \in rtbs : \A a \in t.associations : a.subnet # priv
                    /\ \A s \in subnets :
                          s.vpc = d.vpc_id => (s.id \in {pub, priv} /\ (s.map_public <=> s.id = pub))

\* a create through the handler was answered 201
C26_Witness ==
    \E p \in Procs :
        /\ CreateReturned(fr[p]) /\ CreateSucceeded(fr[p])
        /\ fr[p].entry = "handler"
        /\ \E s \in subnets : s.vpc = fr[p].details.vpc_id /\ ~s.map_public

\* this step issues a provider call of this frame
IssuesCall(p) == Len(fr'[p].calls) = Len(fr[p].calls) + 1

\* the teardown of this delete request succeeded or reported the network as
\* not found
TeardownOver(f) ==
    /\ f.kind = "delete" /\ f.deletion.vpc_id = f.vpc_id /\ f.deletion.status = "deleted"
    /\ f.exc = NoExc
    /\ f.answer \in {"", "InvalidVpcID.NotFound"}
    /\ f.calls # <<>> /\ f.calls[Len(f.calls)].op = "delete_vpc"
    /\ f.answer = "" => VpcOf(f.vpc_id) = {}

\* C27: when a delete request issues a provider call, the stored record of
\* its identifier already has status 'deleting'; a stored record is removed
\* only by a delete request for its identifier whose teardown succeeded or was
\* answered "network not found"; and a step that keeps a record changes no
\* field of it other than status.
C27_StatusThenTeardownThenRemoval ==
    /\ [][\A p \in Procs :
            (fr[p].kind = "delete" /\ fr'[p].kind = "delete" /\ IssuesCall(p)) =>
                \E i \in GetItem(fr[p].vpc_id) : i.status = "deleting"]_vars
    /\ [][\A i \in table :
            GetItem(i.vpc_id)' = {} =>
                \E p \in Procs :
                    /\ fr[p].vpc_id = i.vpc_id /\ fr[p].pc = "d_delete_item"
                    /\ TeardownOver(fr[p])]_vars
    /\ [][\A i \in table : \A j \in table' :
            j.vpc_id = i.vpc_id => j = [i EXCEPT !.status = j.status]]_vars

\* a delete request set the record to 'deleting', tore the network down and
\* removed the record
C27_Witness ==
    \E p \in Procs :
        /\ DeleteDone(fr[p]) /\ DeletedOutcome(fr[p])
        /\ fr[p].vpc_id \in hist.saved
        /\ Len(fr[p].calls) = 9
        /\ GetItem(fr[p].vpc_id) = {}

\* a create request whose network was created and whose record could not be
\* stored
SaveFailed(f) ==
    /\ CreateDone(f) /\ f.entry = "handler" /\ CreateReturned(f)
    /\ f.out.exc.op = "put_item"

\* C28: when save_vpc fails after create_vpc returned its record, the caller
\* receives an error response carrying the error of the store, no teardown
\* call was issued, the network, both subnets, the gateway and the route table
\* of the record exist at the provider, and the store holds no record for the
\* identifier.
C28_SaveFailureKeepsNetwork ==
    \A p \in Procs :
        SaveFailed(fr[p]) =>
            LET d == fr[p].details IN
            /\ fr[p].out.kind = "response" /\ fr[p].out.status = 500
            /\ fr[p].out.exc.type = "ClientError"
            /\ fr[p].out.data = NoDetails
            /\ CallsOf(fr[p].calls, DeleteOps) = <<>>
            /\ Exists(vpcs, d.vpc_id)
            /\ \A i \in 1..Len(d.subnets) :
                  \E s \in subnets : s.id = d.subnets[i].subnet_id /\ s.vpc = d.vpc_id
            /\ Len(d.subnets) = 2
            /\ \E g \in igws : g.id = d.internet_gateway_id /\ g.vpc = d.vpc_id
            /\ \E t \in rtbs : t.id = d.route_tables["public"] /\ t.vpc = d.vpc_id
            /\ GetItem(d.vpc_id) = {}

\* a create through the handler built its network and was answered 500
\* because put_item failed
C28_Witness ==
    \E p \in Procs :
        /\ SaveFailed(fr[p])
        /\ Len(CallsOf(fr[p].calls, CreateOps)) = 12
        /\ Exists(vpcs, fr[p].vpc_id)

\* a delete request about to read the store, which holds no record for its
\* identifier
DeleteOfUnknown(f) ==
    f.kind = "delete" /\ f.pc = "d_get" /\ GetItem(f.vpc_id) = {}

\* C29: a delete request for an identifier the store holds no record of ends
\* with its read of the store: it is answered 404 (or 500 when the read itself
\* failed), it issues no provider call, and the provider and the store are
\* left as they were; a delete request answered 404 has issued no provider
\* call.
C29_UnknownIdNotFound ==
    /\ [][\A p \in Procs :
            (DeleteOfUnknown(fr[p]) /\ fr'[p].kind = "delete" /\ fr'[p] # fr[p]) =>
                /\ fr'[p].pc = "done"
                /\ \/ fr'[p].out = Response(404)
                   \/ /\ fr'[p].out.status = 500
                      /\ fr'[p].out.exc = ClientError("InternalServerError", "get_item")
                /\ fr'[p].calls = <<>>
                /\ ec2vars' = ec2vars
                /\ table' = table]_vars
    /\ [](\A p \in Procs :
            (DeleteDone(fr[p]) /\ fr[p].out.status = 404) =>
                /\ fr[p].calls = <<>>
                /\ fr[p].out.exc = NoExc /\ fr[p].out.deletion = NoDeletion
                /\ GetItem(fr[p].vpc_id) = {})

\* a delete request for the identifier of a network the store has no record
\* of was answered 404, and the network is still at the provider
C29_Witness ==
    \E p \in Procs :
        /\ DeleteDone(fr[p]) /\ fr[p].out = Response(404)
        /\ Exists(vpcs, fr[p].vpc_id)

\* C30: under any interleaving of delete requests for the same identifier,
\* once the record a create stored for that identifier has been removed from
\* the store, no step puts a record for that identifier into the store again.
C30_RemovedRecordStaysRemoved ==
    [][\A id \in hist.saved : GetItem(id) = {} => GetItem(id)' = {}]_vars

\* the errors by which the provider says that what a call names is no longer
\* there
GoneCodes == {"InvalidVpcID.NotFound", "InvalidSubnetID.NotFound",
              "InvalidRouteTableID.NotFound", "InvalidInternetGatewayID.NotFound",
              "Gateway.NotAttached"}

\* a delete request none of whose calls failed for another reason than that:
\* no other provider error and no error of the metadata store
FailedOnlyOnGone(f) ==
    /\ f.answer \in GoneCodes \cup {""}
    /\ f.out.exc.op \notin StoreOps

\* the two delete requests for the created network have both been answered
BothReturned ==
    /\ started = 2
    /\ \A p \in Racers : DeleteDone(fr[p]) /\ fr[p].vpc_id = CreatedFrame.vpc_id

====
